----------------------------- MODULE Threadpool -----------------------------
(***************************************************************************)
(* The CPU thread pool of ggml, on which whisper-cli computes the graphs   *)
(* of the model that writes the captions (ggml-cpu.c, built without        *)
(* OpenMP).  Thread 0 is the caller of ggml_graph_compute, the others are  *)
(* the workers of the pool.                                                *)
(*                                                                         *)
(* An action is one access to an atomic that other threads write, or one   *)
(* critical section of the mutex.  Every atomic access is taken to be      *)
(* sequentially consistent: each relaxed access of the code is ordered by  *)
(* a seq_cst access or fence, or by the mutex, before its value is used.   *)
(***************************************************************************)
EXTENDS Integers, Sequences, FiniteSets

CONSTANTS
    NThreads,       \* threadpool->n_threads
    Graphs,         \* the graphs the caller may compute: sequences of nodes
    Counts,         \* values of the graph counter in n_graph: 2^16 in the code
    MaxGraphs,      \* bound: graphs that are computed
    PausedAnyTime   \* may the pool be paused while a graph is computed?

Threads == 0 .. NThreads - 1
Workers == 1 .. NThreads - 1

\* "skip": an empty op, or a node without GGML_TENSOR_FLAG_COMPUTE;
\* "rows": an op whose rows are divided by ith and nth;
\* "mul_mat": src1 is converted by all, then chunks are handed out.
Node == [kind : {"skip", "rows", "mul_mat"}, chunks : Nat \ {0}]

ASSUME ThreadpoolAssumption ==
    /\ NThreads \in Nat \ {0}
    /\ Graphs \subseteq Seq(Node)
    /\ Counts \in Nat /\ Counts > 1
    /\ MaxGraphs \in Nat
    /\ PausedAnyTime \in BOOLEAN

VARIABLES
    pc,         \* where each thread is
    ret,        \* where it goes on after the barrier
    mutex,      \* the thread that holds threadpool->mutex, or NoOne
    n_graph,    \* [count, n]: the graph counter and the active threads, one word
    n_barrier, n_barrier_passed, current_chunk,
    stop, pause, abort,
    ec,         \* threadpool->ec
    cgraph,     \* threadpool->cgraph
    asked,      \* the n_threads of the plan, cut down to the pool
    last_graph, pending,        \* per worker: ggml_compute_state
    nth, node,                  \* per thread: params.nth, node_n
    chunk,                      \* per thread: the chunk it computes
    bar_n, bar_passed,          \* per thread: n_threads and n_passed of ggml_barrier
    base,       \* history: the node and the place where the last barrier let go
    done,       \* history: the parts of cgraph that have been computed
    computed    \* bound: graphs that were submitted

poolVars == <<mutex, n_graph, stop, pause, last_graph, pending>>
barrierVars == <<n_barrier, n_barrier_passed, bar_n, bar_passed, ret, base>>
graphVars == <<abort, ec, cgraph, asked, computed>>
workVars == <<current_chunk, nth, node, chunk, done>>
vars == <<pc, poolVars, barrierVars, graphVars, workVars>>

NoOne == -1

-----------------------------------------------------------------------------
(* What is computed.                                                       *)

\* The parts of node k that n threads compute. The conversion of src1 is
\* divided by threads; a chunk is computed by whoever gets it.
Parts(g, k, n) ==
    CASE g[k].kind = "skip"    -> {}
      [] g[k].kind = "rows"    -> {<<k, "rows", i>> : i \in 0 .. n - 1}
      [] g[k].kind = "mul_mat" -> {<<k, "src1", i>> : i \in 0 .. n - 1}
                                    \cup {<<k, "chunk", c>> : c \in 0 .. g[k].chunks - 1}

\* The threads that compute the graph under way.
Active == 0 .. n_graph.n - 1

Goto(t, l) == pc' = [pc EXCEPT ![t] = l]

-----------------------------------------------------------------------------
(* The states of a thread.                                                 *)

\* In ggml_graph_compute_thread.
AtNode == {"rows", "convert", "chunk", "fetch", "abort?"}
InBarrier == {"barrier", "arrive", "last", "release", "spin"}
Computing == {"begin", "head"} \cup AtNode \cup InBarrier

\* In ggml_graph_compute_secondary_thread, and there in the section of the
\* mutex.
Waiting == {"top", "stop?", "pauselock", "pausesleep", "pausewake", "poll", "lock",
            "asleep", "wake", "work", "exited"}
Holding == {"paused?", "check", "wait", "kick", "freeing"}

\* The caller outside of the graph.
Calling == {"idle", "kicklock", "return", "freelock", "join", "freed"}

Place == Computing \cup Waiting \cup Holding \cup Calling

PoolTypeOK ==
    /\ mutex \in Threads \cup {NoOne}
    /\ n_graph \in [count : 0 .. Counts - 1, n : 0 .. NThreads]
    /\ stop \in BOOLEAN /\ pause \in BOOLEAN
    /\ last_graph \in [Workers -> [count : 0 .. Counts - 1, n : 0 .. NThreads]]
    /\ pending \in [Workers -> BOOLEAN]

BarrierTypeOK ==
    /\ n_barrier \in Nat
    /\ n_barrier_passed \in Nat
    /\ bar_n \in [Threads -> 0 .. NThreads]
    /\ bar_passed \in [Threads -> Nat]
    /\ ret \in [Threads -> {"head", "chunk", "return", "top"}]
    /\ base \in [node : Nat, after : {"head", "chunk", "out"}]

GraphTypeOK ==
    /\ abort \in Nat
    /\ ec \in {"success", "aborted"}
    /\ cgraph \in Graphs \cup {<<>>}
    /\ asked \in 0 .. NThreads
    /\ computed \in 0 .. MaxGraphs

WorkTypeOK ==
    /\ current_chunk \in Nat
    /\ nth \in [Threads -> 0 .. NThreads]
    /\ node \in [Threads -> Nat]
    /\ chunk \in [Threads -> Nat]
    /\ done \subseteq Nat \X {"rows", "src1", "chunk"} \X Nat

TypeOK ==
    /\ pc \in [Threads -> Place]
    /\ PoolTypeOK /\ BarrierTypeOK /\ GraphTypeOK /\ WorkTypeOK

\* ggml_threadpool_new_impl
Init ==
    /\ pc = [t \in Threads |-> IF t = 0 THEN "idle" ELSE "top"]
    /\ ret = [t \in Threads |-> "head"]
    /\ mutex = NoOne
    /\ n_graph = [count |-> 0, n |-> 0]
    /\ n_barrier = 0
    /\ n_barrier_passed = 0
    /\ current_chunk = 0
    /\ stop = FALSE
    /\ pause \in BOOLEAN
    /\ abort = 0
    /\ ec = "success"
    /\ cgraph = <<>>
    /\ asked = 0
    /\ last_graph = [w \in Workers |-> [count |-> 0, n |-> 0]]
    /\ pending = [w \in Workers |-> FALSE]
    /\ nth = [t \in Threads |-> 0]
    /\ node = [t \in Threads |-> 0]
    /\ chunk = [t \in Threads |-> 0]
    /\ bar_n = [t \in Threads |-> 0]
    /\ bar_passed = [t \in Threads |-> 0]
    /\ base = [node |-> 0, after |-> "out"]
    /\ done = {}
    /\ computed = 0

-----------------------------------------------------------------------------
(* The mutex and its condition variable.                                   *)

\* A thread in cond_wait sleeps in "asleep" or "pausesleep". Once woken it
\* needs the mutex to go on.
Woken(l) == CASE l = "asleep"     -> "wake"
              [] l = "pausesleep" -> "pausewake"
              [] OTHER            -> l

\* ggml_cond_broadcast, and t goes on at l.
Broadcast(t, l) ==
    pc' = [u \in Threads |-> IF u = t THEN l ELSE Woken(pc[u])]

Lock(t, from, to) ==
    /\ pc[t] = from
    /\ mutex = NoOne
    /\ mutex' = t
    /\ Goto(t, to)

\* pthread_cond_wait may return without a broadcast.
SpuriousWakeup(w) ==
    /\ pc[w] \in {"asleep", "pausesleep"}
    /\ Goto(w, Woken(pc[w]))
    /\ UNCHANGED <<poolVars, barrierVars, graphVars, workVars>>

-----------------------------------------------------------------------------
(* A worker waits for work: ggml_graph_compute_secondary_thread.           *)

\* while (threadpool->pause)
CheckPause(w) ==
    /\ pc[w] = "top"
    /\ Goto(w, IF pause THEN "pauselock" ELSE "stop?")
    /\ UNCHANGED <<poolVars, barrierVars, graphVars, workVars>>

PauseLock(w) ==
    /\ Lock(w, "pauselock", "paused?")
    /\ UNCHANGED <<n_graph, stop, pause, last_graph, pending>>
    /\ UNCHANGED <<barrierVars, graphVars, workVars>>

\* The mutex is given back by cond_wait or by unlock.
PauseWait(w) ==
    /\ pc[w] = "paused?"
    /\ mutex' = NoOne
    /\ Goto(w, IF pause THEN "pausesleep" ELSE "top")
    /\ UNCHANGED <<n_graph, stop, pause, last_graph, pending>>
    /\ UNCHANGED <<barrierVars, graphVars, workVars>>

\* cond_wait takes the mutex, and unlock gives it back.
PauseWake(w) ==
    /\ pc[w] = "pausewake"
    /\ mutex = NoOne
    /\ Goto(w, "top")
    /\ UNCHANGED <<poolVars, barrierVars, graphVars, workVars>>

CheckStop(w) ==
    /\ pc[w] = "stop?"
    /\ Goto(w, IF stop THEN "exited" ELSE "poll")
    /\ UNCHANGED <<poolVars, barrierVars, graphVars, workVars>>

\* ggml_graph_compute_thread_ready: does it return true, and what does it
\* leave in the state of the worker? The flags and n_graph are read in one
\* step: only n_graph, and pause after it, change in a kickoff, and a worker
\* that saw the old flag comes round again.
Ready(w) == pending[w] \/ stop \/ pause \/ n_graph # last_graph[w]

SeesGraph(w) == ~(pending[w] \/ stop \/ pause) /\ n_graph # last_graph[w]

ThreadReady(w) ==
    /\ pending' = [pending EXCEPT ![w] = IF SeesGraph(w) THEN w < n_graph.n ELSE @]
    /\ last_graph' = [last_graph EXCEPT ![w] = IF SeesGraph(w) THEN n_graph ELSE @]

\* ggml_graph_compute_poll_for_work: a bounded number of rounds, of which the
\* last one counts. Without pending work the worker goes for the mutex, even
\* when it was ready.
PollForWork(w) ==
    /\ pc[w] = "poll"
    /\ ThreadReady(w)
    /\ Goto(w, IF pending'[w] THEN "work" ELSE "lock")
    /\ UNCHANGED <<mutex, n_graph, stop, pause>>
    /\ UNCHANGED <<barrierVars, graphVars, workVars>>

\* ggml_graph_compute_check_for_work, with the mutex.
WorkLock(w) ==
    /\ \E from \in {"lock", "wake"} : Lock(w, from, "check")
    /\ UNCHANGED <<n_graph, stop, pause, last_graph, pending>>
    /\ UNCHANGED <<barrierVars, graphVars, workVars>>

CheckForWork(w) ==
    /\ pc[w] = "check"
    /\ ThreadReady(w)
    /\ IF Ready(w)
         THEN mutex' = NoOne /\ Goto(w, IF pending'[w] THEN "work" ELSE "top")
         ELSE mutex' = mutex /\ Goto(w, "wait")
    /\ UNCHANGED <<n_graph, stop, pause>>
    /\ UNCHANGED <<barrierVars, graphVars, workVars>>

CondWait(w) ==
    /\ pc[w] = "wait"
    /\ mutex' = NoOne
    /\ Goto(w, "asleep")
    /\ UNCHANGED <<n_graph, stop, pause, last_graph, pending>>
    /\ UNCHANGED <<barrierVars, graphVars, workVars>>

StartWork(w) ==
    /\ pc[w] = "work"
    /\ pending' = [pending EXCEPT ![w] = FALSE]
    /\ Goto(w, "begin")
    /\ UNCHANGED <<mutex, n_graph, stop, pause, last_graph>>
    /\ UNCHANGED <<barrierVars, graphVars, workVars>>

Wait(w) ==
    \/ CheckPause(w) \/ PauseWait(w) \/ CheckStop(w)
    \/ PollForWork(w) \/ CheckForWork(w) \/ CondWait(w) \/ StartWork(w)

AcquireLock(w) == PauseLock(w) \/ WorkLock(w) \/ PauseWake(w)

-----------------------------------------------------------------------------
(* ggml_barrier.                                                           *)

\* Thread t goes to the barrier, and then to r.
GotoBarrier(t, r) ==
    /\ Goto(t, "barrier")
    /\ ret' = [ret EXCEPT ![t] = r]

\* History: all threads may go on from where t goes on.
LetGo(t) ==
    base' = [node |-> node[t],
             after |-> IF ret[t] \in {"return", "top"} THEN "out" ELSE ret[t]]

EnterBarrier(t) ==
    /\ pc[t] = "barrier"
    /\ bar_n' = [bar_n EXCEPT ![t] = n_graph.n]
    /\ IF n_graph.n = 1
         THEN /\ Goto(t, ret[t]) /\ LetGo(t)
              /\ UNCHANGED bar_passed
         ELSE /\ Goto(t, "arrive")
              /\ bar_passed' = [bar_passed EXCEPT ![t] = n_barrier_passed]
              /\ UNCHANGED base
    /\ UNCHANGED <<n_barrier, n_barrier_passed, ret>>
    /\ UNCHANGED <<poolVars, graphVars, workVars>>

\* Mutant: the last thread but one counts as the last.
ArriveOneEarly(t) ==
    /\ pc[t] = "arrive"
    /\ n_barrier' = n_barrier + 1
    /\ Goto(t, IF n_barrier >= bar_n[t] - 2 THEN "last" ELSE "spin")
    /\ UNCHANGED <<n_barrier_passed, bar_n, bar_passed, ret, base>>
    /\ UNCHANGED <<poolVars, graphVars, workVars>>

ArriveAtBarrier(t) ==
    /\ pc[t] = "arrive"
    /\ n_barrier' = n_barrier + 1
    /\ Goto(t, IF n_barrier = bar_n[t] - 1 THEN "last" ELSE "spin")
    /\ UNCHANGED <<n_barrier_passed, bar_n, bar_passed, ret, base>>
    /\ UNCHANGED <<poolVars, graphVars, workVars>>

ResetBarrier(t) ==
    /\ pc[t] = "last"
    /\ n_barrier' = 0
    /\ Goto(t, "release")
    /\ UNCHANGED <<n_barrier_passed, bar_n, bar_passed, ret, base>>
    /\ UNCHANGED <<poolVars, graphVars, workVars>>

ReleaseBarrier(t) ==
    /\ pc[t] = "release"
    /\ n_barrier_passed' = n_barrier_passed + 1
    /\ Goto(t, ret[t])
    /\ LetGo(t)
    /\ UNCHANGED <<n_barrier, bar_n, bar_passed, ret>>
    /\ UNCHANGED <<poolVars, graphVars, workVars>>

LeaveBarrier(t) ==
    /\ pc[t] = "spin"
    /\ n_barrier_passed # bar_passed[t]
    /\ Goto(t, ret[t])
    /\ UNCHANGED <<barrierVars, poolVars, graphVars, workVars>>

Barrier(t) ==
    \/ EnterBarrier(t) \/ ArriveAtBarrier(t) \/ ResetBarrier(t)
    \/ ReleaseBarrier(t) \/ LeaveBarrier(t)

-----------------------------------------------------------------------------
(* ggml_graph_compute_thread.  Nodes are numbered from 1.                  *)

BeginGraph(t) ==
    /\ pc[t] = "begin"
    /\ nth' = [nth EXCEPT ![t] = n_graph.n]
    /\ node' = [node EXCEPT ![t] = 0]
    /\ Goto(t, "head")
    /\ UNCHANGED <<current_chunk, chunk, done>>
    /\ UNCHANGED <<poolVars, barrierVars, graphVars>>

\* Mutant: the caller does not take part in the barrier after the loop.
NextNodeReturns(t) ==
    /\ pc[t] = "head"
    /\ LET k == node[t] + 1
       IN  IF k <= Len(cgraph) /\ abort # k
             THEN /\ node' = [node EXCEPT ![t] = k]
                  /\ Goto(t, CASE cgraph[k].kind = "skip"    -> "head"
                               [] cgraph[k].kind = "rows"    -> "rows"
                               [] cgraph[k].kind = "mul_mat" -> "convert")
                  /\ UNCHANGED ret
             ELSE /\ IF t = 0 THEN Goto(t, "return") /\ UNCHANGED ret
                              ELSE GotoBarrier(t, "top")
                  /\ UNCHANGED node
    /\ UNCHANGED <<n_barrier, n_barrier_passed, bar_n, bar_passed, base>>
    /\ UNCHANGED <<current_chunk, nth, chunk, done>>
    /\ UNCHANGED <<poolVars, graphVars>>

\* The head of the loop, for the node after node[t].
NextNode(t) ==
    /\ pc[t] = "head"
    /\ LET k == node[t] + 1
       IN  IF k <= Len(cgraph) /\ abort # k
             THEN /\ node' = [node EXCEPT ![t] = k]
                  /\ Goto(t, CASE cgraph[k].kind = "skip"    -> "head"
                               [] cgraph[k].kind = "rows"    -> "rows"
                               [] cgraph[k].kind = "mul_mat" -> "convert")
                  /\ UNCHANGED ret
             ELSE /\ GotoBarrier(t, IF t = 0 THEN "return" ELSE "top")
                  /\ UNCHANGED node
    /\ UNCHANGED <<n_barrier, n_barrier_passed, bar_n, bar_passed, base>>
    /\ UNCHANGED <<current_chunk, nth, chunk, done>>
    /\ UNCHANGED <<poolVars, graphVars>>

ComputeRows(t) ==
    /\ pc[t] = "rows"
    /\ done' = done \cup {<<node[t], "rows", t>>}
    /\ Goto(t, "abort?")
    /\ UNCHANGED <<current_chunk, nth, node, chunk>>
    /\ UNCHANGED <<poolVars, barrierVars, graphVars>>

\* Mutant: no barrier between the conversion and the chunks.
ConvertAndGoOn(t) ==
    /\ pc[t] = "convert"
    /\ done' = done \cup {<<node[t], "src1", t>>}
    /\ current_chunk' = IF t = 0 THEN nth[t] ELSE current_chunk
    /\ chunk' = [chunk EXCEPT ![t] = t]
    /\ Goto(t, "chunk")
    /\ UNCHANGED <<barrierVars, nth, node>>
    /\ UNCHANGED <<poolVars, graphVars>>

\* Mutant: current_chunk is not set for this product.
ConvertKeepsCount(t) ==
    /\ pc[t] = "convert"
    /\ done' = done \cup {<<node[t], "src1", t>>}
    /\ chunk' = [chunk EXCEPT ![t] = t]
    /\ GotoBarrier(t, "chunk")
    /\ UNCHANGED <<n_barrier, n_barrier_passed, bar_n, bar_passed, base, nth, node>>
    /\ UNCHANGED <<current_chunk, poolVars, graphVars>>

\* ggml_compute_forward_mul_mat up to its barrier.
ConvertSrc1(t) ==
    /\ pc[t] = "convert"
    /\ done' = done \cup {<<node[t], "src1", t>>}
    /\ current_chunk' = IF t = 0 THEN nth[t] ELSE current_chunk
    /\ chunk' = [chunk EXCEPT ![t] = t]
    /\ GotoBarrier(t, "chunk")
    /\ UNCHANGED <<n_barrier, n_barrier_passed, bar_n, bar_passed, base, nth, node>>
    /\ UNCHANGED <<poolVars, graphVars>>

\* The chunks, one at a time, until there are no more.
ComputeChunk(t) ==
    /\ pc[t] = "chunk"
    /\ LET n == cgraph[node[t]].chunks
       IN  /\ done' = IF chunk[t] < n THEN done \cup {<<node[t], "chunk", chunk[t]>>}
                                      ELSE done
           /\ Goto(t, IF chunk[t] < n /\ nth[t] < n THEN "fetch" ELSE "abort?")
    /\ UNCHANGED <<current_chunk, nth, node, chunk>>
    /\ UNCHANGED <<poolVars, barrierVars, graphVars>>

FetchChunk(t) ==
    /\ pc[t] = "fetch"
    /\ chunk' = [chunk EXCEPT ![t] = current_chunk]
    /\ current_chunk' = current_chunk + 1
    /\ Goto(t, "chunk")
    /\ UNCHANGED <<nth, node, done>>
    /\ UNCHANGED <<poolVars, barrierVars, graphVars>>

\* Mutant: the flag names the node that is over.
EndNodeTooEarly(t) ==
    /\ pc[t] = "abort?"
    /\ \/ UNCHANGED <<abort, ec>>
       \/ t = 0 /\ abort' = node[t] /\ ec' = "aborted"
    /\ IF node[t] < Len(cgraph)
         THEN GotoBarrier(t, "head")
         ELSE Goto(t, "head") /\ UNCHANGED ret
    /\ UNCHANGED <<n_barrier, n_barrier_passed, bar_n, bar_passed, base>>
    /\ UNCHANGED <<cgraph, asked, computed>>
    /\ UNCHANGED <<poolVars, workVars>>

\* The end of the loop: only thread 0 asks the callback, whose answer is
\* anything.
EndNode(t) ==
    /\ pc[t] = "abort?"
    /\ \/ UNCHANGED <<abort, ec>>
       \/ t = 0 /\ abort' = node[t] + 1 /\ ec' = "aborted"
    /\ IF node[t] < Len(cgraph)
         THEN GotoBarrier(t, "head")
         ELSE Goto(t, "head") /\ UNCHANGED ret
    /\ UNCHANGED <<n_barrier, n_barrier_passed, bar_n, bar_passed, base>>
    /\ UNCHANGED <<cgraph, asked, computed>>
    /\ UNCHANGED <<poolVars, workVars>>

Compute(t) ==
    \/ BeginGraph(t) \/ NextNode(t) \/ ComputeRows(t) \/ ConvertSrc1(t)
    \/ ComputeChunk(t) \/ FetchChunk(t) \/ EndNode(t)

-----------------------------------------------------------------------------
(* The caller: ggml_graph_compute, pause and resume, ggml_threadpool_free. *)

\* ggml_graph_compute with a plan for n threads, up to the kickoff.
Submit(g, n) ==
    /\ pc[0] = "idle"
    /\ computed < MaxGraphs
    /\ cgraph' = g
    /\ current_chunk' = 0
    /\ abort' = 0
    /\ ec' = "success"
    /\ asked' = IF n > NThreads THEN NThreads ELSE n
    /\ done' = {}
    /\ computed' = computed + 1
    /\ Goto(0, "kicklock")
    /\ UNCHANGED <<nth, node, chunk, poolVars, barrierVars>>

KickLock ==
    /\ Lock(0, "kicklock", "kick")
    /\ UNCHANGED <<n_graph, stop, pause, last_graph, pending>>
    /\ UNCHANGED <<barrierVars, graphVars, workVars>>

\* Mutant: the counter does not wrap.
KickoffGrows ==
    /\ pc[0] = "kick"
    /\ n_graph' = [count |-> n_graph.count + 1, n |-> asked]
    /\ pause' = FALSE
    /\ mutex' = NoOne
    /\ Broadcast(0, "begin")
    /\ base' = [node |-> 0, after |-> "head"]
    /\ UNCHANGED <<stop, last_graph, pending>>
    /\ UNCHANGED <<n_barrier, n_barrier_passed, bar_n, bar_passed, ret>>
    /\ UNCHANGED <<graphVars, workVars>>

\* Mutant: a paused pool is woken, not resumed.
KickoffPaused ==
    /\ pc[0] = "kick"
    /\ n_graph' = [count |-> (n_graph.count + 1) % Counts, n |-> asked]
    /\ mutex' = NoOne
    /\ Broadcast(0, "begin")
    /\ base' = [node |-> 0, after |-> "head"]
    /\ UNCHANGED <<stop, pause, last_graph, pending>>
    /\ UNCHANGED <<n_barrier, n_barrier_passed, bar_n, bar_passed, ret>>
    /\ UNCHANGED <<graphVars, workVars>>

\* ggml_graph_compute_kickoff: the counter wraps, the threads of the plan are
\* in the same word. A paused pool is resumed.
Kickoff ==
    /\ pc[0] = "kick"
    /\ n_graph' = [count |-> (n_graph.count + 1) % Counts, n |-> asked]
    /\ pause' = FALSE
    /\ mutex' = NoOne
    /\ Broadcast(0, "begin")
    /\ base' = [node |-> 0, after |-> "head"]
    /\ UNCHANGED <<stop, last_graph, pending>>
    /\ UNCHANGED <<n_barrier, n_barrier_passed, bar_n, bar_passed, ret>>
    /\ UNCHANGED <<graphVars, workVars>>

Return ==
    /\ pc[0] = "return"
    /\ Goto(0, "idle")
    /\ UNCHANGED <<poolVars, barrierVars, graphVars, workVars>>

\* ggml_threadpool_pause and ggml_threadpool_resume. The caller pauses a pool
\* between two graphs (ggml_backend_cpu_set_threadpool); the interface does
\* not keep another thread from it in the middle of one.
MayPause == IF PausedAnyTime THEN pc[0] \notin {"freelock", "freeing", "join", "freed"}
                             ELSE pc[0] = "idle"

PauseOrResume(p) ==
    /\ MayPause
    /\ mutex = NoOne
    /\ pause # p
    /\ pause' = p
    /\ Broadcast(0, pc[0])
    /\ UNCHANGED <<mutex, n_graph, stop, last_graph, pending>>
    /\ UNCHANGED <<barrierVars, graphVars, workVars>>

Free ==
    /\ pc[0] = "idle"
    /\ Goto(0, "freelock")
    /\ UNCHANGED <<poolVars, barrierVars, graphVars, workVars>>

FreeLock ==
    /\ Lock(0, "freelock", "freeing")
    /\ UNCHANGED <<n_graph, stop, pause, last_graph, pending>>
    /\ UNCHANGED <<barrierVars, graphVars, workVars>>

StopWorkers ==
    /\ pc[0] = "freeing"
    /\ stop' = TRUE
    /\ pause' = FALSE
    /\ mutex' = NoOne
    /\ Broadcast(0, "join")
    /\ UNCHANGED <<n_graph, last_graph, pending>>
    /\ UNCHANGED <<barrierVars, graphVars, workVars>>

Join ==
    /\ pc[0] = "join"
    /\ \A w \in Workers : pc[w] = "exited"
    /\ Goto(0, "freed")
    /\ UNCHANGED <<poolVars, barrierVars, graphVars, workVars>>

\* The pool is gone: nothing happens any more.
Freed == pc[0] = "freed" /\ UNCHANGED vars

-----------------------------------------------------------------------------

\* The steps of thread 0 and of a worker that the scheduler owes them.
Steps0 == Compute(0) \/ Barrier(0) \/ Kickoff \/ Return \/ StopWorkers \/ Join
Locks0 == KickLock \/ FreeLock
StepsW(w) == Compute(w) \/ Barrier(w) \/ Wait(w)

Next ==
    \/ \E g \in Graphs, n \in 1 .. NThreads + 1 : Submit(g, n)
    \/ Steps0 \/ Locks0 \/ Free \/ Freed
    \/ \E p \in BOOLEAN : PauseOrResume(p)
    \/ \E w \in Workers : StepsW(w) \/ AcquireLock(w) \/ SpuriousWakeup(w)

Spec == Init /\ [][Next]_vars

\* Every thread runs, and a mutex that is free again and again is given to
\* each thread that waits for it. Nobody must submit, pause, resume or free,
\* and a thread that sleeps may sleep until the broadcast.
Fairness ==
    /\ WF_vars(Steps0) /\ SF_vars(Locks0)
    /\ \A w \in Workers : WF_vars(StepsW(w)) /\ SF_vars(AcquireLock(w))

FairSpec == Spec /\ Fairness

-----------------------------------------------------------------------------
(* What a thread may rely on.                                              *)

\* A thread at work on a node finds every part of the nodes before it done:
\* the barrier lets nobody into the next node early, and NOPs, which have no
\* barrier, do not open a gap.
InputsReady ==
    \A t \in Threads : pc[t] \in AtNode =>
        \A k \in 1 .. node[t] - 1 : Parts(cgraph, k, n_graph.n) \subseteq done

\* A thread that computes chunks finds all of src1 converted, although the
\* threads convert it together and leave the barrier one by one.
Src1Ready ==
    \A t \in Threads : pc[t] \in {"chunk", "fetch"} =>
        {<<node[t], "src1", i>> : i \in Active} \subseteq done

\* No chunk is computed by two threads: first chunks are numbered by thread,
\* the others are handed out by the shared counter, which starts again for
\* every mul_mat.
ChunkIsMine ==
    \A t \in Threads : pc[t] = "chunk" /\ chunk[t] < cgraph[node[t]].chunks =>
        /\ <<node[t], "chunk", chunk[t]>> \notin done
        /\ \A u \in Threads : u # t /\ pc[u] = "chunk" /\ node[u] = node[t]
                                => chunk[u] # chunk[t]

\* "No worker threads should be accessing the parameters below at this
\* stage" (ggml_graph_compute): while the caller is outside of a graph no
\* worker is in ggml_graph_compute_thread, but for the end of the last barrier.
WorkersAreOut ==
    pc[0] \in Calling \cup {"kick", "freeing"} =>
        \A w \in Workers : /\ pc[w] \in Computing => pc[w] = "spin" /\ ret[w] = "top"
                           /\ pc[w] # "work"

\* When ggml_graph_compute returns success every part of the graph is
\* computed, and after an abort every part of the nodes before the one where
\* all threads stopped, and nothing of the others.
ReturnedGraphIsWhole ==
    pc[0] = "return" =>
        LET last == IF ec = "success" THEN Len(cgraph) ELSE abort - 1
        IN  done = UNION {Parts(cgraph, k, n_graph.n) : k \in 1 .. last}

\* A graph that is kicked off is computed to the end: no worker misses the
\* broadcast, none is left behind in a barrier, whatever the last graph's
\* number of threads was.
GraphEnds == pc[0] = "kicklock" ~> pc[0] = "idle"

\* ggml_threadpool_free returns: no worker sleeps through the stop.
FreeEnds == pc[0] = "freelock" ~> pc[0] = "freed"

\* The caller's calls return: no wakeup is lost between a worker that goes to
\* sleep and a kickoff, a pause or a stop, and no barrier lacks a thread.
CallsEnd == GraphEnds /\ FreeEnds

=============================================================================
