# Mogo studio in TLA+

Specifications, model checks and proofs for the Mogo studio: the Node server
(`server.js`) that turns an uploaded video or podcast into an HLS episode with
captions and publishes it to Cloudflare R2, the pages and scripts around it, and the parts of
the vendored whisper.cpp on which every caption depends: its loop over the audio, the
memory plan and the threads that compute the model.

## The system

| Component | State it keeps | Operations | Talks to |
|---|---|---|---|
| Job server, pipelines (`server.js` 203-332, 439-560) | the in-memory table `jobs`; a folder and a raw upload per job in `TEMP_DIR`; the closures of the running callbacks | `/process`, `/process-podcast`, `/status`, `/cancel`; the `end`, `error`, `close` callbacks of the children | ffmpeg and whisper-cli children; the pages |
| Job server, publishing (`server.js` 336-395) | per request a listing, a position in it, an awaited reply | `/upload-to-r2` and its background loop | R2; the entry and folder of the job |
| Thumbnails (`server.js` 402-437) | none | `/upload-thumbnail` | R2 |
| Video filters (`server.js` 101-201, `lib/`) | none, pure functions | form fields to ffmpeg arguments | `/process` |
| Studio page (`public/index.html`) | a job id in localStorage; a polling timer, a countdown timer, what is shown | submit, poll, countdown, upload, cancel, reload | the job server |
| Podcast, dubbing pages | the same, under other keys | the same | the job server |
| Database migration (`mogofm-db/migrate.js`) | the PocketBase collections and records; in memory `collectionsByName`, the map from old ids to records, the batch at hand | two passes over the tables, started again after a failure | Supabase, PocketBase |
| whisper.cpp, decoding (`whisper_full_with_state`) | `result_all` and the two prompt contexts, kept between calls; the window, the decoders and their tokens | one call: windows, temperatures, tokens, ranking, segments | the network, which it computes through ggml; callbacks |
| ggml, graph allocator (`ggml-alloc.c`, the scheduler of `ggml-backend.cpp`) | free blocks and chunks of each buffer; the plan of the last walk; the buffers | reserve and allocate a graph, reuse a plan | backends, which may refuse memory |
| ggml, thread pool (`ggml-cpu.c`) | the atomics and the mutex of `ggml_threadpool` | compute a graph, pause, resume, free; per thread poll, sleep, barrier, chunks | caller and workers share all of it |
| `deploy.sh`, pm2 | none | restart | the job server |
| the rest of whisper.cpp, `pb_migrations` | vendored, generated | | |

The pages and the server share no memory: a page knows of its job what the last answer to
`GET /status` said, the server knows of a page nothing at all. The job id in localStorage
is all that outlives a page.

What is hard in it: Node runs one callback at a time, but a job is a chain of
callbacks of child processes, an upload is suspended at every file, and the pages
may send `/cancel` and `/upload-to-r2` between any two of these. Every callback
writes to `jobs[folderId]` without asking whether `/cancel` has deleted it: one
that comes too late throws, nothing catches it, and the process dies with the jobs
of everybody. pm2 starts it again with an empty table, while folders, raw uploads and
orphaned children are still there, and pages still hold the ids. Uploads of one job
may overlap, and jobs may share a path in R2. A page has up to four activities at a time:
polls, of which a slow one is overtaken by the next; a countdown that uploads when it ends;
requests under way; and the user, who presses buttons and reloads. Its two timer
variables name the last timer that was set, so one that is set twice leaves an orphan.

The migration has no transaction: every record is a request of its own that may fail, or
succeed without the script hearing of it, and the process may end between any two of them. What
a second run does depends on what it can read of the first. In whisper.cpp one call goes
through windows whose length the network decides, with several decoders that fail
and fall back to one another's state. The allocator lets tensors share bytes over time, which is
right only if it has counted every reader and every view, and it uses a plan for graphs it was
not made for. The threads of the pool meet at a barrier made of three counters, hand out
work by another, and go to sleep while the next graph may already be there.

What makes it correct: a status pages wait on is always followed by another; the
preview and the published link lead to something that can be played; "published" and
"deleted" are not undone by whatever comes late; a restart loses nothing but memory. A relation
in PocketBase leads to the record its row named, and no row has two records. Captions come
in order and do not overlap, and a call ends. No tensor is written over while somebody is
to read it. Every part of a graph is computed once, after what it needs, and the call returns.

## Modules

| Module | What it is |
|---|---|
| `MogoServer` | the server, its children, `TEMP_DIR` and R2; the properties |
| `Lifecycle` | the abstract specification: what a page may rely on |
| `Studio` | one open page, `index.html` or `podcast.html`, composed with `MogoServer`; its properties |
| `Migrate` | the migration script with Supabase and PocketBase |
| `Transcribe` | `whisper_full_with_state` |
| `DynTallocr` | the operators of `ggml_dyn_tallocr`, the memory of one buffer |
| `Galloc` | the graph allocator and the scheduler that calls it; extends `DynTallocr` |
| `Threadpool` | the CPU thread pool |
| `MC...` | the instances for TLC: symmetry, tables, graphs, parameters |
| `MogoServerProofs` | theorems for any client (`Spec`) |
| `MogoPoliteProofs` | theorems for patient pages (`PoliteSpec`), and the refinement |
| `StudioProofs` | theorems for a page and any user |
| `StudioPoliteProofs` | the page of a patient user implements `PoliteSpec` |
| `MigrateProofs`, `TranscribeProofs`, `GallocProofs`, `ThreadpoolProofs` | the theorems about the modules of these names |

### MogoServer and the code

- `jobs` is the table `jobs`, `NoJob` its missing keys. The entry keeps the status and
  the fields that promise something: captions, and after an upload the link and its
  captions. Percentages, sizes, durations and messages are left out.
- `pipe[j]` is the closure of the job's pipeline: the child whose callback is awaited.
  `writer[j]` is what that child has still to write to `files[j]`, the folder `dirs`;
  it goes on writing when the process has died. `raw` is the multer file.
- `up[t]` is a background upload at its `await`: the listing read before the loop, what is
  still to do, the file in flight, and whether R2 has already stored it. The
  listing is taken in the alphabetical order of `readdirSync` (`First`).
- `bucket[p]` is what R2 holds below a path, by whichever job. Two jobs may use one path.
- `alive` is the process. `Crash` is a callback that throws: memory goes, the rest
  stays. `Restart` is pm2, `Deploy` is `pm2 restart` of `deploy.sh`.

One callback or handler is one action, with everything it does until it returns to the
event loop: `Process` (both pipelines), `RejectPodcast`, `CompressEnd`, `CompressError`,
`ExtractEnd`, `ExtractError`, `SpawnError`, `WhisperError`, `WhisperSuccess`,
`TranslateSuccess`, `ProgressEvent`, `UploadToR2` (up to its first await), `PutNext`, `PutLast`
(from one await to the next), `PutRejected`, `Cancel`. `GET /status` changes nothing: what
it answers is the variable itself. The environment is `ChildWrites` and
`R2Stores`. What the code asks of the file system is a choice: the model file and
binary may be missing at any of the two places they are looked for, `.env` may lack
the bucket, and a caption run may end well without having written anything (as
`whisper-cli` does when it cannot read the audio or write the file).

Operators whose comment begins with "Mutant" are not part of the specification: each is a
plausible slip in the action that follows it, kept to show that a property notices.

There are two clients. In `Spec` they send anything at any time. In `PoliteSpec`
they do what one page on its own does when nothing in it races: publish or delete a
job when its preview can be seen (`Previewable`). After a restart the page still shows
its preview although the entry is gone, so that case is included.

### Studio and the code

- `shown` is the set of areas that are displayed, `current` is `currentFolderId`, `saved` the
  job in localStorage, `link` the link in `finalArea`.
- `polling` and `countdown` are the interval timers that run. The last one that was set is
  `"current"`: `clearInterval` reaches it. One that still ran when it was set again is the
  `"orphan"`, and nothing but a page load ends it.
- `polls[q]` is a `GET /status` under way: asked, or answered with what the entry said
  when the server read it. `posts[r]` is a `POST`. A page that goes away leaves a request
  whose answer nobody reads (`awaited`), and which the server may still get.
- A request is three actions: the page sends it (`Submit`, `RequestUpload`, `PressCancel`,
  `PollTick`), the server takes it (`ProcessArrives`, `UploadArrives`, `UploadRefused`,
  `CancelArrives`, `StatusAnswers`, which are the actions of `MogoServer`), the page reads
  the answer (`ProcessReturns`, `UploadReturns`, `CancelReturns`, and for a poll `PollWaits`, `ShowPreview`,
  `ShowPublishedLink`, `ShowError`). It may fail before or after the server took it
  (`PostFails`, `PollFails`).
- `PageKind` selects what differs: `podcast.html` does not poll after its upload request, and has
  a link that resets the page. `Load` is `window.onload`, `ClearStateAndReload` the
  function of that name, `Refresh` the user's reload.
- `ServerWorks` is the server beside the page, and the jobs that other pages submit. Other pages do not
  publish or delete here; what they can do by that is the subject of `MogoServer`.
- `Patient` is an assumption on the user and the network: while a request is under way nothing is pressed and
  the page is not reloaded, and a request that fails does not reach the server later. Timers are not patient. Without it the user presses any button
  that is on the screen, and reloads, at any time.

`PageIsPolite` says that the page of a patient user is a client as `PoliteSpec`
describes it. It closes the argument: what is proved of `PoliteSpec` is assumed of
nobody any more, it is what this page does.

### Lifecycle

Phases of a job (unknown, working, ready, publishing, published, failed), the path of its
link, and the set of episodes that can be played. `KeepsPromise` is `Lifecycle` with these
computed from `jobs` and `bucket`. It says that no phase is skipped, a failure is final,
a link is announced only when the episode is online, an episode comes online only
while some job is being published, and a restart forgets every job at once and takes no
episode offline.

### Migrate and the code

- A column is named by the table it refers to; columns that are no foreign keys, names, types and
  the discovery of the columns are left out. `Start(planned)` is `main`, for the tables the
  discovery found, in the order of `topologicalSortTables`: Kahn's algorithm as a recursive function, whose step is
  `PlaceFirst`, and which takes tables in the order of `TABLES` (`Configured`). `TABLES` lists each table once, as `migrate.js` 30-49 does.
- `EnsureCollection` makes or completes a collection. `BuildExistingMap` reads the old ids, page by page; a page
  that cannot be read leaves the map as it is (`CutAt`). `FetchBatch`, `MigrateRow` (update what the map knows,
  create the rest, remember it) and `EndBatch` are pass 1; `ReadRelationMap`, `LinkRecord`, `EndLinks` are pass 2.
- A request that writes is one action, for nobody else writes to PocketBase; requests that only read
  are one action until their answer is used. A request may be refused, or take effect with its answer lost.
- PocketBase is external and modelled from how the script uses it: it ignores fields it does not
  know (`migrate.js` names them all the same), and pages are stable while nothing is written. The query
  without an order that is tried when the ordered one fails may give any order (`Unordered`). When a field list is refused the
  script adds fields one by one, so any of them may be missing (`PartlySynced`).
- `Crash` forgets the script's memory at any moment; `EditSource` changes Supabase at any moment.
- `disturbed`, `doubt`, `dropped`, and `of` and `want` of a record are history: what happened to the run,
  which old ids it may not know of, which keys were stored nowhere, and which row and key a record is for.

### Transcribe and the code

- Time is counted in frames of 10 ms. Tokens are text, `Eot` or a timestamp. What the network decides (the
  token, how probable a sequence is, whether there is speech) is a choice among what the logit filters
  leave (`Allowed`, with the defaults of whisper-cli: blanks suppressed at the start, a bound on the
  first timestamp). Of the prompts only the numbers of tokens are kept.
- `Call` is everything before the loop, with its early returns; `EnterWindow` and `LeaveLoop` are the loop's head,
  `Prepare` a temperature up to the first logits, `LoseState` the error that frees the state (-7), `DecodeFails` the errors -8
  and -9, `Sample` one token for every live decoder with the update of the window and the ends of a decoding, `Rank`
  the scores and the fallback, `Emit` the segments, the rolling context and the move of the window.
- In a beam search a decoder goes on with any candidate of any live one; the scores that decide which are
  not modelled. A best decoder of an earlier temperature stays best when all others fail, with whatever
  it holds by then (`best_decoder_id` is set once for each window).
- Segments are a set of records, keyed by their window and the place in it. Between windows the decoders are
  reset in the model (`NoWindow`), since nothing reads what they hold.

### DynTallocr, Galloc and the code

- `Chosen` is the search for a block with all its quirks: inner blocks first, best fit per chunk, then the
  last block of each chunk by what would be reused. `Freed` is `ggml_dyn_tallocr_free_bytes`, merges included.
- `Galloc` walks a graph as the code does: `AllocateLeaf`, `CountNode`, then per node `AllocateParent`,
  `AllocateResult`, `FreeParent`, with in-place reuse (`Reuse`) and the extra bytes it gives back. `SavePlan` and `ReserveBuffer`
  end a reserve; `NextGraph` is `ggml_backend_sched_alloc_splits`, which uses the old plan unless `NeedsRealloc`
  or the backends changed; `Place` gives the tensors their data.
- Tensors are numbered, leafs first. Buffers of one type share an allocator, so a buffer stands for a type; `n_buffers` is the number of
  backends the scheduler was made with. With one `ggml_gallocr_alloc_graph` reserves by itself, with more the scheduler does.
- `WellFormed` is what the walk takes for granted of a graph (the module lists it); `Asked` admits every such graph. Leafs that no node reads are among
  them: `ggml-alloc.c:722` speaks of them, and `whisper_build_graph_conv` makes two with an external encoder (`whisper.cpp:2020`). Not among them are the
  copies of inputs that the scheduler adds to the leafs for pipelines (`n_copies` > 1); whisper.cpp creates its scheduler without (`whisper.cpp:558`).
- **An exception the code makes.** `ggml_gallocr_needs_realloc` compares the nodes and their arguments with the last walk, and not the leafs that no node
  reads. If such a leaf has grown in a graph of the same operations the old plan is used all the same: the leaf lies over another input, or
  ends past the buffer, which is an assertion; a leaf that lost its own memory has no address at all. TLC finds both when `UnreadFit` is dropped from `ValuesSurvive` and
  `CrashNeedsRefusal`: the graph of two unread inputs of 2 units is placed, the first grows to 4, and is put over the second. The
  two properties therefore assume `UnreadFit`. whisper.cpp keeps to it: `whisper_init_state` reserves the largest conv graph before it computes any,
  and an audio context above the model's is refused.
- `ReserveFails` is a backend that refuses memory. The scheduler ignores the result of its second reserve; the tensors are then placed
  in buffers that are not there (`crashed`). `aborted` is the assertion "out of free blocks".

### Threadpool and the code

- Thread 0 is the caller of `ggml_graph_compute`, the others run `ggml_graph_compute_secondary_thread`. An
  action is one access to an atomic that others write, or one critical section of the mutex; `pc` names
  the place. `n_graph` packs the graph counter and the number of threads as the code does.
- This is the build without OpenMP. `GGML_OPENMP` is on by default, and replaces the pool by a parallel
  region where OpenMP is found; the pool is what remains in every other build.
- Atomics are taken to be sequentially consistent: each relaxed access is ordered by a seq_cst one, a
  fence or the mutex before its value is used. Wakeups may be spurious. whisper.cpp passes no pool, so a disposable one
  is made; pausing is for callers who keep one.
- A node is empty, divided by rows, or a matrix product with its shared chunk counter; the kernels, NUMA and
  priorities are left out. `base` is a history variable: the node and the place where the last barrier let go.

## Runs

| Run | Checks | Instance | States |
|---|---|---|---|
| `any_client` (`AnyClient.cfg`) | `TypeOK`, `BusyHasWorker`, `LinksAreStored`, `PublishedIsCleared`, `GoneStaysGone`, `Settles` | any client, fair; 1 job, 2 uploads at a time, 1 path | 218 thousand |
| `polite` (`Polite.cfg`) | `ServerStaysUp`, `PreviewIsBacked`, `PublishedIsWhole`, `PublishedIsFinal`, `KeepsPromise` | patient pages; 2 jobs, 2 uploads, 2 paths, symmetric | 467 thousand |
| `studio_patient` (`StudioPatient.cfg`) | `LinkIsUndisturbed`, `PageIsPolite` | `podcast.html`, patient user; 2 jobs, 1 poll and 1 request at a time | 252 thousand |
| `studio_overlap` (`StudioOverlap.cfg`) | `StudioTypeOK`, `ProgressIsFollowed`, `LinkOnScreenIsWhole` | `index.html`, any user; 1 job, 2 polls, 1 request, 2 uploads | 199 thousand |
| `studio_live` (`StudioLive.cfg`) | `TimerIsShown`, `WaitIsAnswered` | `index.html`, any user, fair; 1 job, 1 poll, 2 requests | 40 thousand |
| `studio_timer` (`StudioTimer.cfg`) | `TimerIsShown` is violated | `index.html`, patient user, 2 polls | |
| `podcast_progress` (`PodcastProgress.cfg`) | `ProgressIsFollowed` is violated | `podcast.html`, patient user, 1 poll | |
| `migrate` (`Migrate.cfg`) | `TypeOK`, `ParentsFirst`, `LinksAreRight`, `KeyOrLink`, `MigratedWhole`, `TwinsComeOfDoubt`, `RunEnds` | 2 tables of up to 2 rows, batches and pages of 1; 2 starts, 2 failed requests, 1 edit | 587 thousand |
| `migrate_keys` (`MigrateKeys.cfg`) | `KeysAreKept` is violated | a table that refers to itself, no request fails | |
| `transcribe` (`Transcribe.cfg`) | `SegmentsInOrder`, `ContextFits`, `CallReturns` | fair; 2 calls with 6 kinds of parameters, 2 decoders, timestamps 0 to 3, 4 tokens, 1 or 3 windows | 538 thousand |
| `galloc` (`Galloc.cfg`) | `TypeOK`, `BytesAreCounted`, `LastChunkSuffices`, `ValuesSurvive`, `CrashNeedsRefusal` | 3,964 graphs on one backend (most of 5 tensors, 1,590 with leafs nobody reads) and 18 on two, each followed by one of another size or in other buffers; 2 refusals | 1.4 million |
| `threadpool` (`Threadpool.cfg`) | `TypeOK`, `InputsReady`, `Src1Ready`, `ChunkIsMine`, `WorkersAreOut`, `ReturnedGraphIsWhole`, `CallsEnd` | fair; 3 threads, 2 graphs, a counter of 2 values | 353 thousand |

- `any_client`: whatever the pages send, and through any number of crashes and restarts, a
  status of work in progress is backed by a child or an upload that will change it; a
  caption link leads to a stored object; a published job has no folder; a deleted job
  stays deleted. The jobs of the server touch nothing of each other but the shared
  path in R2 and the process itself, so the hard cases need one job with two uploads
  and a pipeline that run at the same time; that is this instance. That links lead to
  stored objects when several paths are in play is the theorem `LinksLeadSomewhere`, and `polite` has two.
  `Settles` is the promise behind the polling loops: no job stays in a status a page waits on.
  `ServerStaysUp`, `PreviewIsBacked` and `PublishedIsWhole` do not hold here: a `/cancel` sent while
  a child runs kills the process, and an upload sent during compression
  publishes half a video.
- `polite`: with patient pages nothing kills the process, the preview and the link can be
  played, and the server implements `Lifecycle`. Two jobs, since one must not
  disturb the other, and since both may write below one path.
- `studio_patient`: a page whose polls do not overlap and whose user waits
  sends nothing but what `PoliteSpec` allows, through failed requests, reloads and restarts of
  the server, and nothing takes the link from the screen. One request
  suffices, a patient page never has two; the second job is another page's. The instance is `podcast.html`; that the same
  holds of `index.html` are theorems for both kinds of page.
- `studio_overlap`: with overlapping polls, orphaned timers, a user in a hurry and requests that
  arrive after their page was reloaded, a progress bar is still followed by a poll or a request, and the link on the
  screen still leads to a whole video. Two polls are what it takes to orphan a
  timer, and two uploads to have one overtake the other. One request of the page at a time is enough for
  that, an orphaned countdown sends one after the other; with two the 1.4 million states show the same.
- `studio_live`: if polls do not overlap the countdown never outlives its preview, even with two requests
  under way, and every progress bar gives way to something else. The exception is
  `Forgotten`: after a restart `/status` answers `{error: 'Not found'}` with status 200, the page
  looks for a 404 and polls for ever. With two polls `WaitIsAnswered` fails as well: the orphaned
  countdown goes on uploading what has just been published or failed.
- `studio_timer` (finding, `index.html:1239`): both of two overlapping polls read `done`, the
  preview is shown twice, and "Upload Now (Skip Timer)" stops only the second countdown.
- `podcast_progress` (finding, `podcast.html:657`): "Flow moves back to startPolling" is not what
  happens; the page shows 0% of an upload it does not follow, and never shows the link.

- `migrate`: two tables configured in the wrong order, or one that refers to itself; keys that differ in
  Supabase and are one key in PocketBase; two starts of the script, so that the second finds whatever
  the first left. Batches and pages of one row make every boundary happen. `MigratedWhole`: after a run in which nothing failed
  everything is as if it had been the only one, whatever ran before; rows without a key (`NoKey`) are excepted, for the
  script skips them. `RunEnds` assumes that a script that runs goes on.
- `migrate_keys` (finding, `migrate.js:1017`): the key of a column without a temporary field is written to
  a field PocketBase does not know, and is gone. A second run stores it, as text.
- `transcribe`: the six kinds of parameters are fallback to a temperature with fewer decoders, a beam, a carried
  prompt that is too long, one segment for each window, and no timestamps with and without a beam. With three windows the last is near the end of
  the audio, where the contexts are dropped; with four tokens a window may hold two captions, or a caption and a rest without a timestamp.
  Two calls are what it takes to find a context of an earlier one. `SegmentsInOrder` excepts greedy decoding without timestamps in one respect: a
  segment's beginning is then computed from a token that is no timestamp (`whisper_sample_token` leaves `tid` 0) and lies long before the audio.
- `galloc`: two arguments and three operations with every choice of arguments, views, in-place results, outputs and inputs that is
  well-formed; graphs made for chunks that fill up, a plan that is reused and leafs that no node reads; and, with two backends, graphs with a part of their tensors
  on either, which may move in the next graph (`BackendsChanged`). Chunks of 6 units, two chunks and
  two free blocks are small enough for each limit to be met.
- `threadpool`: three threads are what it takes for one to be late in a barrier while two go on; the graph has all kinds of nodes, and the second
  graph may use another number of threads than the first. The counter has as many values as there are graphs: `CallsEnd` would fail if
  a worker could sleep through all values and take a new graph for the old one, which in the code takes 65,536 graphs (a hazard that is listed, and that no property covers). The theorems about safety hold with any counter.

In the runs of the server and the pages nothing bounds the number of steps: a folder id is drawn once, uploads end and their slots are
used again, and crashes and restarts may follow each other for ever. In the others the bounds are in the guards and named among
the constants: `MaxRuns`, `MaxFaults`, `MaxEdits`; `MaxCalls`; `MaxGraphs`, `MaxFailures`. Deadlock is
checked in all runs: the server never stops for good, and where a bound ends a model an action says so (`Ended`, `Done`, `Freed`). No state constraint is used.

Fairness (`Fairness` of `MogoServer`, used by `any_client` and `studio_live`): a child that was started ends, well or
badly; the reply of R2 comes or the connection breaks, and then the upload goes on; pm2 restarts the
process. Each is weak fairness of what the environment or the event loop is bound to
do. There is none on clients, on `ChildWrites` or on `Deploy`: a child may be stuck in the middle
of its output for ever without ending well, but it ends.

`Migrate` and `Transcribe` assume weak fairness of `Step`: a script or a thread that can go on does; a request is answered or fails. `Threadpool` assumes that
every thread runs (weak), and that a mutex that is free again and again is given to each thread that waits for it (strong, per thread). Nobody must submit,
pause, resume or free.

`StudioFairness`, used by `studio_live`, adds the page: timers tick, the answer to a request
comes or the request fails and the page acts on that, each weakly fair. The answer to a poll is strongly fair, per slot:
a poll may fail, and be lost in a reload, any number of times, but a poll that is repeated
for ever is answered and read some time. Nothing is assumed of the user: no button is ever bound to be pressed.

## Proofs

The theorems about the server and the pages hold for any sets of jobs, uploads and paths, and of polls and requests of the page. They
assume `ConstantsAssumption`, that `None` is none of the jobs, paths and file names,
and those about the page `StudioAssumption`, that it is one of the two pages. What a theorem
assumes beyond that is in its statement.

`MogoServerProofs` (any client):
- `TypeCorrect`, `StatusIsBacked`, `LinksLeadSomewhere`, `PublishingClears`, `DeletedForGood`.
- `BusyHasWorker` is not inductive: an upload is what backs `uploading_r2`, and only
  because an upload that has a job also has a file in flight. `LinksAreStored` needs that
  what an upload has passed is in the bucket below its own path. Both are `UploadInv`; `ServerInv` is
  `TypeOK`, `UploadInv` and the properties themselves.
- The lemmas `EntryStep`, `UploadStep`, `BusyStep` say what a step can do to one entry or one
  upload; the later proofs use them instead of going through the actions again.

`MogoPoliteProofs` (patient pages):
- `NothingKillsTheServer`, `PreviewCanBePlayed`, `LinkCanBePlayed`, `PublishedForGood`,
  `ServerKeepsPromise`.
- `PoliteInv` says, job by job, what is true of its entry, folder, input and child
  in each stage (`PipelineInv`), while it is published (`UploadingInv`: one upload, and its listing is
  still in the folder), when it is ready (`ReadyInv`) and before it was accepted (`FreshInv`).
  It is needed because "nothing else works on the job" must be seen from the entry
  and the folder, which is all a page and a handler ever look at. One lemma per
  action shows that it is kept.
- The refinement is `InitRefines` and `StepRefines`: each action of `PoliteNext` is an action of
  `Lifecycle` or leaves its four variables alone, under `ServerInv` and `PoliteInv`.

`StudioProofs` (a page and any user, any number of polls and requests):
- `StudioTypeCorrect` needs `PageInv`: a page without a job has no timer, no poll and no
  preview, or it would poll for a job that is not there.
- `PageIsAClient`: a page with the server implements `Spec`, so the theorems about `Spec` hold of it.
- `VideoProgressIsFollowed` (`index.html`) needs `Followed`: the request that is awaited is one that leads
  to a poll or a reload. A deletion is not; its failure shows nothing.
- `LinkShownCanBePlayed`, for any user, any polls and any requests: the link on the screen leads to a playlist and its segments in R2.
  `PageLinkCanBePlayed` says the same of every link `/status` gives while such a page is the only one that asks for uploads. The
  invariant has three parts. The folder: once compression has ended a job is `Ripe`, its folder holds the
  whole video or is gone, and no later step takes more than `audio.wav` out of it (`Shelved`, `FolderKept`). The upload: the listing of every upload is whole
  (`WholeListings`), and what is online stays online (`Lasting`). The page: it offers, asks for and shows only what is ripe, in its answers, requests and
  timers (`WatchInv`). The last needs that a page learns the id of a job once (`SubmitInv`): then an orphaned
  countdown can only upload the job that was offered. Patience is not needed.
- `TimerStaysShown` assumes `OnePoll`, that two polls are never under way at one time. Then the page is in one of four modes (`Modes`:
  it waits for an answer, follows a job, offers a preview, or rests), and in each the timers,
  polls and requests are known. The run `studio_timer` shows that the assumption is needed.

`StudioPoliteProofs` (`Patient` and `OnePoll`):
- `PatientPageIsPolite`: the page implements `PoliteSpec`, and with `MogoPoliteProofs` it follows that
  nothing it does kills the server and that its links can be played.
- `LinkStaysUndisturbed`.
- A page asks for what it has seen earlier: the preview may be minutes old when the button is
  pressed. The proof collects what the page may come to ask for (`Wants`) and shows that
  it stays on offer (`Offer`: previewable, or deleted by a request whose answer was lost)
  through every callback, child, upload and restart of the server (`WorkKeepsOffer`). That there is one request at a time (`OneRequest`)
  is what keeps the page from asking for a job it has just given away.

`MigrateProofs` (any tables, rows, schemas, batch and page sizes, any number of runs, failures, crashes and edits; `MigrateAssumption`):
- `RelationsAreRight`, `KeysAreNotLost`, `RestartsMakeNoTwins`.
- The invariant is `StoreType`, `RecordsAreTrue` (what a record says of its row is what was read), `MapIsRight` and
  `RelationMapsAreRight` (the maps in memory lead to records of their keys, and lack only what is in doubt), `LinksAreRight`, `KeyOrLink`. The maps are
  needed because a map is read at one moment and used at many later ones. None of these depends on the order of the tables.
- `OrderLists`: `topologicalSortTables` lists the planned tables, each once, and without a cycle it puts each after those it refers to. What
  a recursive function computes calls for an induction, and the induction theorems of the library cannot be used here, since they have an operator for a parameter. The
  proof supposes instead that the invariant of the loop (`KahnInv`) fails and looks at the first turn at which it does (`HasLeast`). The queue does not run dry
  early, since of the tables left over one refers to none of the others (`NobodyWaits`).
- `ParentsComeFirst` (`ParentsFirst`): `AllWhole` says that a collection is not made at all or made with every field, that the order has parents
  first and that those already passed are in `known`.
- `MigrationIsWhole` (`MigratedWhole`): as long as a run is undisturbed (`Undisturbed`) the collections it has passed
  are ready, whatever earlier runs left of them; the rows it has passed have their records, up to a position in the batch at hand (`BatchAfter`, `Written`),
  and an update or a row with the same key does not take that away; the records pass 2 has passed have no key left that it
  could look up, and its maps know every old id there is (`KeysAreLinked`).
- `MigrationIsTyped` (`TypeOK`).

`TranscribeProofs` (any windows, vocabularies, contexts, decoders and parameters; `SizesAreSane`, `ParamsAreSane`):
- `CaptionsStayInOrder`, `ContextAlwaysFits`, `FailuresComeLast`, `TranscribeTypeCorrect`.
- `Sound` is what is known of a decoder: its timestamps do not decrease and its `seek_delta` is no less than the last of them. It
  survives sampling because the filter and the update agree (`StampedSound`, which also shows that the check against going back in time can never
  fire), a beam's exchange of decoders, and the cut. Then a window's captions lie between `seek` and the next `seek` unless that is the end
  of the audio (`AudioInv`), which puts windows in order, and `PiecesInOrder` does the same within one.
- `ContextInv` carries the length of the static context from call to call. `ParamsAreSane` is needed: a caller that keeps a context from a
  call with a larger `n_max_text_ctx`, or carries a prompt with `n_max_text_ctx` 1, makes the code insert a range of negative length.

`GallocProofs` (any well-formed graphs, sizes, alignment, chunks, blocks; `TallocrAssumption`, `GallocAssumption`):
- `NoByteIsLost`: the free blocks and the tensors in a chunk share out its bytes (`Parted`).
- `NoValueIsLost`: `n_children` and `n_views` count the reads and views still to come (`CountInv`, `ViewInv`), so a tensor that was freed has none left (`AliveInv`), and no
  two placed tensors are in each other's way (`PairInv`). `PlanInv` carries this to the plan, `FitInv` from there to later graphs of the same operations. It is claimed for those
  only, and under `UnreadFit`: the code compares numbers and sizes of nodes and their arguments, while `ggml-alloc.h` promises a new walk "if the topology changes".
- `LastChunkIsEnough`: "this should never happen" in `ggml_dyn_tallocr_alloc` does not happen. The last chunk is free from its highest address to its end
  (`LastInv`), so it can only be full when a highest address nears `Endless`; what a walk has placed lies below the highest address of its
  chunk (`HeldInv`), and by `HandedInv` a chunk grows by no more than one tensor for each that is placed. `WellFormed` therefore assumes that as
  many tensors as the graph has, each of the size of its largest, are less than `Endless` (`SIZE_MAX/2`), which no memory reaches.
- `CrashIsARefusal` (`CrashNeedsRefusal`): `RoomInv` says that the buffers have room for what the last walk planned, also after a buffer was left as it
  is because it was large enough, or that the buffer of one of the graph's tensors was refused, and then this graph is not computed. That a refused buffer has a tensor is `UsedInv`: a
  buffer gets chunks only with a tensor in them. Like `NoValueIsLost` it is about graphs of the operations that were planned, under `UnreadFit`. What it allows, a crash
  after a refusal, is what the code does: nobody looks at the result of the scheduler's reserve.
- `AllocatorIsTyped` (`TypeOK`).

`ThreadpoolProofs` (any number of threads, any graphs, any width of the counter, pauses at any time; `ThreadpoolAssumption`):
- `ThreadpoolTypeCorrect`, `InputsAreReady`, `Src1IsReady`, `ChunksAreHandedOutOnce`, `CallerIsAlone`, `ResultIsTrue`.
- The key is `base`. Every thread is between the barrier that let go last and the next one, or is still leaving the last; `PlacedInv` says
  so thread by thread, `BarrierInv` relates the counters to how many have arrived, and from these follow what is done (`DoneInv`), who has which chunk (`ChunkInv`), and that an abort is seen by all or by none (`AbortInv`).

The invariants were checked with TLC on the instances above before they were proved.

Every safety invariant and every action property of the passing runs is stated by a theorem, and so is the refinement of `Lifecycle`. Only
model-checked are the five liveness properties, `Settles`, `WaitIsAnswered`, `RunEnds`, `CallReturns` and `CallsEnd`, since TLAPS does not prove
liveness under fairness. What `TimerStaysShown`, `LinkStaysUndisturbed` and `PatientPageIsPolite` assume of the user and the polls is said there.

## Not modelled

- Percentages, sizes, durations, messages and ffmpeg's arguments.
- A `folderId` that names no folder of its own (`''` or `'.'`), which no page sends.
- `rmSync` that fails because a child writes into the folder at the same moment.
- An object R2 stores after the process that sent it has died. It would add to
  `bucket` only, below the path of an upload that is forgotten.
- Two tabs of one browser, which share localStorage; what they send is covered by `any_client`.
- The form, the crop editor and the trimming, whose result is a parameter of `/process`.
- Migration: columns that are no foreign keys, names, types, the discovery of the columns, other writers of PocketBase.
- Transcription: what the network computes; `whisper_full_parallel` (whisper-cli starts one processor; the code moves only the beginning of a chunk's segments past the last chunk, so a
  segment that overruns its chunk may overlap the second of the next), voice activity detection, token-level timestamps and wrapping, grammars, callbacks, KV cache cells, the branch for tests without a model, ties with a threshold.
- Allocation: graphs of other operations placed by an old plan, input copies among the leafs, `ggml_tallocr`, the tensors of a context, the measuring reserve, debug tables. An output that is a view keeps its bytes only as long as its
  view source, although `ggml-alloc.h` says that outputs are never overwritten; whisper.cpp flags no views.
- Thread pool: the OpenMP build, kernels, NUMA, priorities, weak memory.
- Thumbnails and video filters of the server: one request without state, and pure functions of the form; small, and without interleaving.
- The components listed as `not_modelled` in `PROJECT.json`, with the reason there.

## Plan

1. The server and its promise (`MogoServer`, `Lifecycle`, proofs): done.
2. The pages (`Studio`, proofs): done for one page. Left: two tabs that share localStorage.
3. The migration (`Migrate`, proofs): done.
4. What writes the captions (`Transcribe`, `Galloc`, `Threadpool`, proofs): done for the parts named above. Left:
   the cells of the KV cache; `whisper_full_parallel`.
5. `VideoFilter`: `evenDimension`, the crop and the label wiring as operators, checked over bounded
   sizes; lemmas on evenness and bounds. The thumbnail key.
