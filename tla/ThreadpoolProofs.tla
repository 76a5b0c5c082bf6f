-------------------------- MODULE ThreadpoolProofs --------------------------
(***************************************************************************)
(* The threads of the pool compute a graph node by node, every part once:  *)
(* proofs for every number of threads, every graph and every width of the  *)
(* graph counter.                                                          *)
(*                                                                         *)
(* The argument: all threads that compute the graph were let go by the     *)
(* same barrier (base), so each of them is somewhere between that barrier  *)
(* and the next one.  Where the next one is follows from base alone, so    *)
(* all of them will meet there.                                            *)
(***************************************************************************)
EXTENDS Threadpool, FiniteSetTheorems, TLAPS

-----------------------------------------------------------------------------
(* The inductive invariant.                                                *)

\* A thread that still spins in a barrier that was released.
Lags(t) == pc[t] = "spin" /\ bar_passed[t] # n_barrier_passed

OutOf(t) == IF t = 0 THEN "return" ELSE "top"

\* Outside of the graph.
Resting(t) ==
    \/ t = 0 /\ pc[t] \in Calling \cup {"kick", "freeing"}
    \/ t # 0 /\ pc[t] \in (Waiting \ {"work"}) \cup {"paused?", "check", "wait"}
    \/ Lags(t) /\ ret[t] = OutOf(t)

Start == [node |-> 0, after |-> "head"]

OnlySkips(i, j) == \A k \in i + 1 .. j : cgraph[k].kind = "skip"

\* The node at which the threads work after the last barrier.
Reached(k) ==
    /\ base.after = "head"
    /\ base.node < k /\ k <= Len(cgraph)
    /\ cgraph[k].kind # "skip"
    /\ OnlySkips(base.node, k - 1)
    /\ abort # base.node + 1

\* ... and from which they go to the barrier at its end.
Ending(k) ==
    \/ Reached(k) /\ cgraph[k].kind = "rows"
    \/ base.node = k /\ base.after = "chunk"

\* The final barrier comes next.
EndsHere ==
    /\ base.after = "head"
    /\ \/ abort = base.node + 1
       \/ OnlySkips(base.node, Len(cgraph))

\* What a thread has done since the last barrier.
RowsDone(t) ==
    cgraph[node[t]].kind = "rows" => <<node[t], "rows", t>> \in done

ChunksGone(t) ==
    cgraph[node[t]].kind = "mul_mat" => cgraph[node[t]].chunks <= current_chunk

Ended(t) == Ending(node[t]) /\ RowsDone(t) /\ ChunksGone(t)

AtHead(t) ==
    \/ /\ base.after = "head"
       /\ base.node <= node[t] /\ node[t] <= Len(cgraph)
       /\ OnlySkips(base.node, node[t])
       /\ abort = base.node + 1 => node[t] = base.node
    \/ node[t] = Len(cgraph) /\ Ended(t)

AtBarrier(t) ==
    \/ /\ ret[t] = "chunk"
       /\ Reached(node[t]) /\ cgraph[node[t]].kind = "mul_mat"
       /\ <<node[t], "src1", t>> \in done
       /\ chunk[t] = t
       /\ t = 0 => current_chunk = n_graph.n
    \/ ret[t] = "head" /\ node[t] < Len(cgraph) /\ Ended(t)
    \/ ret[t] = OutOf(t) /\ (EndsHere \/ (node[t] = Len(cgraph) /\ Ended(t)))

\* Where a thread is that computes the graph.
Placed(t) ==
    /\ pc[t] \in {"work", "begin"} => base = Start
    /\ pc[t] = "head" => AtHead(t)
    /\ pc[t] = "rows" => Reached(node[t]) /\ cgraph[node[t]].kind = "rows"
    /\ pc[t] = "convert" => Reached(node[t]) /\ cgraph[node[t]].kind = "mul_mat"
    /\ pc[t] \in {"chunk", "fetch"} => base = [node |-> node[t], after |-> "chunk"]
    /\ pc[t] = "abort?" => Ended(t)
    /\ pc[t] \in InBarrier /\ ~Lags(t) => AtBarrier(t)
    /\ Lags(t) => base = [node |-> node[t], after |-> ret[t]]
    /\ pc[t] \notin {"work", "begin"} => nth[t] = n_graph.n

\* Who computes the graph.
CallerInv ==
    /\ Resting(0) <=> base.after = "out"
    /\ pc[0] \in Computing \cup {"return"} => n_graph.n = asked /\ n_graph.n > 0
    /\ pc[0] \in {"kicklock", "kick"} => asked > 0 /\ abort = 0 /\ done = {}
    /\ pc[0] \notin Waiting
    /\ base.after # "out" => 1 <= n_graph.n

WorkerInv ==
    \A w \in Workers :
        /\ pc[w] \notin Calling \cup {"kick", "freeing"}
        /\ pending[w] <=> pc[w] = "work"
        /\ w \notin Active => Resting(w)
        /\ base.after = "out" => Resting(w)
        /\ w \in Active /\ (base.after = "out" \/ ~Resting(w)) => last_graph[w] = n_graph
        /\ w \in Active /\ base.after # "out" /\ Resting(w) => base = Start

PlacedInv == \A t \in Active : ~Resting(t) => Placed(t)

\* The barrier.
Arrived == {t \in Active : pc[t] = "spin" /\ bar_passed[t] = n_barrier_passed}

BarrierInv ==
    /\ \A t \in Threads : pc[t] = "spin" => bar_passed[t] <= n_barrier_passed
    /\ \A t \in Threads : pc[t] \in {"arrive", "last", "release"} \/ (pc[t] = "spin" /\ ~Lags(t))
          => bar_n[t] = n_graph.n /\ n_graph.n # 1
    /\ \A t \in Threads : pc[t] = "arrive" => bar_passed[t] = n_barrier_passed
    /\ \A t \in Threads : pc[t] \in {"last", "release"} => Arrived = Active \ {t}
    /\ \A t \in Threads : pc[t] = "release" => n_barrier = 0
    /\ (\A t \in Threads : pc[t] \notin {"last", "release"}) => n_barrier = Cardinality(Arrived)

\* The flag of the abort.
AbortInv ==
    /\ abort = 0 \/ abort > 1
    /\ ec = "success" <=> abort = 0
    /\ base.after # "out" => \/ abort \in {0, base.node + 1}
                             \/ Reached(abort - 1)

\* What is computed.
DoneInv ==
    /\ base.after # "out" =>
          /\ base.node <= Len(cgraph)
          /\ \A p \in done : /\ 1 <= p[1] /\ p[1] <= Len(cgraph)
                             /\ p \in Parts(cgraph, p[1], n_graph.n)
                             /\ p[1] <= base.node \/ Reached(p[1])
                             /\ p[2] = "chunk" => p[1] <= base.node
          /\ \A k \in 1 .. Len(cgraph) : k < base.node \/ (k = base.node /\ base.after = "head")
                => Parts(cgraph, k, n_graph.n) \subseteq done
    /\ base.after = "chunk" =>
          /\ base.node \in 1 .. Len(cgraph)
          /\ cgraph[base.node].kind = "mul_mat"
          /\ \A i \in Active : <<base.node, "src1", i>> \in done
    /\ pc[0] \in Computing \cup {"return"} /\ base.after = "out" =>
          done = UNION {Parts(cgraph, k, n_graph.n) :
                          k \in 1 .. (IF ec = "success" THEN Len(cgraph) ELSE abort - 1)}

\* Who computes which chunk.
Holds(t, c) == (pc[t] = "chunk" \/ Lags(t)) /\ ~Resting(t) /\ chunk[t] = c

ChunkInv ==
    base.after = "chunk" =>
        /\ n_graph.n <= current_chunk
        /\ \A t \in Active : Holds(t, chunk[t]) =>
              /\ chunk[t] < current_chunk
              /\ <<base.node, "chunk", chunk[t]>> \notin done
        /\ \A p \in done : p[1] = base.node /\ p[2] = "chunk" => p[3] < current_chunk
        /\ \A t, u \in Active : t # u /\ Holds(t, chunk[t]) /\ Holds(u, chunk[u])
              => chunk[t] # chunk[u]
        /\ \A c \in 0 .. cgraph[base.node].chunks - 1 : c < current_chunk =>
              \/ <<base.node, "chunk", c>> \in done
              \/ \E t \in Active : Holds(t, c)

IInv ==
    /\ TypeOK
    /\ CallerInv /\ WorkerInv /\ PlacedInv /\ BarrierInv
    /\ AbortInv /\ DoneInv /\ ChunkInv

-----------------------------------------------------------------------------
(* Types.                                                                  *)

LEMMA GraphIsSeq ==
  ASSUME TypeOK
  PROVE  /\ cgraph \in Seq(Node)
         /\ Len(cgraph) \in Nat
         /\ \A k \in 1 .. Len(cgraph) :
               /\ cgraph[k].kind \in {"skip", "rows", "mul_mat"}
               /\ cgraph[k].chunks \in Nat \ {0}
<1>1. cgraph \in Seq(Node)
  <2>1. cgraph \in Graphs \/ cgraph = <<>>
    BY DEF TypeOK, GraphTypeOK
  <2>2. <<>> \in Seq(Node)
    OBVIOUS
  <2>. QED  BY <2>1, <2>2, ThreadpoolAssumption
<1>2. \A k \in 1 .. Len(cgraph) : cgraph[k] \in Node
  BY <1>1
<1>3. Len(cgraph) \in Nat
  BY <1>1
<1>. QED  BY <1>1, <1>2, <1>3 DEF Node

LEMMA Bounds ==
  /\ NThreads \in Nat /\ NThreads > 0
  /\ Counts \in Nat /\ Counts > 1
  /\ MaxGraphs \in Nat
  /\ 0 \in Threads
  /\ Workers \subseteq Threads
BY ThreadpoolAssumption DEF Threads, Workers

LEMMA Places ==
  /\ {"top", "stop?", "pauselock", "pausesleep", "pausewake", "poll", "lock", "asleep",
      "wake", "work", "exited", "paused?", "check", "wait"} \subseteq Place
  /\ {"begin", "head", "rows", "convert", "chunk", "fetch", "abort?", "barrier", "arrive",
      "last", "release", "spin"} \subseteq Place
  /\ {"idle", "kicklock", "kick", "return", "freelock", "freeing", "join", "freed"}
         \subseteq Place
BY DEF Place, Waiting, Holding, Computing, Calling, AtNode, InBarrier

LEMMA TypeFrames ==
  /\ PoolTypeOK /\ UNCHANGED poolVars => PoolTypeOK'
  /\ BarrierTypeOK /\ UNCHANGED barrierVars => BarrierTypeOK'
  /\ GraphTypeOK /\ UNCHANGED graphVars => GraphTypeOK'
  /\ WorkTypeOK /\ UNCHANGED workVars => WorkTypeOK'
<1>1. PoolTypeOK /\ UNCHANGED poolVars => PoolTypeOK'
  BY DEF PoolTypeOK, poolVars
<1>2. BarrierTypeOK /\ UNCHANGED barrierVars => BarrierTypeOK'
  BY DEF BarrierTypeOK, barrierVars
<1>3. GraphTypeOK /\ UNCHANGED graphVars => GraphTypeOK'
  BY DEF GraphTypeOK, graphVars
<1>4. WorkTypeOK /\ UNCHANGED workVars => WorkTypeOK'
  BY DEF WorkTypeOK, workVars
<1>. QED  BY <1>1, <1>2, <1>3, <1>4

LEMMA ThreadReadyType ==
  ASSUME PoolTypeOK, NEW w \in Workers, ThreadReady(w)
  PROVE  /\ pending' \in [Workers -> BOOLEAN]
         /\ last_graph' \in [Workers -> [count : 0 .. Counts - 1, n : 0 .. NThreads]]
<1>1. pending[w] \in BOOLEAN /\ (w < n_graph.n) \in BOOLEAN
  BY DEF PoolTypeOK
<1>2. (IF SeesGraph(w) THEN w < n_graph.n ELSE pending[w]) \in BOOLEAN
  BY <1>1
<1>3. pending' \in [Workers -> BOOLEAN]
  BY <1>2 DEF ThreadReady, PoolTypeOK
<1>4. last_graph' \in [Workers -> [count : 0 .. Counts - 1, n : 0 .. NThreads]]
  BY DEF ThreadReady, PoolTypeOK
<1>. QED  BY <1>3, <1>4

LEMMA TypeOfWait ==
  ASSUME TypeOK, NEW w \in Workers, Wait(w) \/ AcquireLock(w) \/ SpuriousWakeup(w)
  PROVE  TypeOK'
<1>. USE Bounds
<1>1. UNCHANGED <<barrierVars, graphVars, workVars>>
  BY DEF Wait, AcquireLock, SpuriousWakeup, CheckPause, CheckStop, PauseWait, CondWait,
         StartWork, PauseWake, PauseLock, WorkLock, PollForWork, CheckForWork
<1>2. BarrierTypeOK' /\ GraphTypeOK' /\ WorkTypeOK'
  BY <1>1, TypeFrames DEF TypeOK
<1>3. PoolTypeOK' /\ pc' \in [Threads -> Place]
  <2>. USE Places DEF TypeOK, Goto
  <2>1. CASE CheckPause(w) \/ CheckStop(w) \/ PauseWake(w)
    BY <2>1, TypeFrames DEF CheckPause, CheckStop, PauseWake
  <2>2. CASE SpuriousWakeup(w)
    BY <2>2, TypeFrames DEF SpuriousWakeup, Woken
  <2>3. CASE PauseWait(w) \/ CondWait(w) \/ StartWork(w)
    BY <2>3, ZenonT(40) DEF PauseWait, CondWait, StartWork, NoOne, PoolTypeOK
  <2>4. CASE PauseLock(w) \/ WorkLock(w)
    BY <2>4 DEF PauseLock, WorkLock, Lock, PoolTypeOK
  <2>5. CASE PollForWork(w)
    BY <2>5, ThreadReadyType DEF PollForWork, PoolTypeOK
  <2>6. CASE CheckForWork(w)
    BY <2>6, ThreadReadyType DEF CheckForWork, NoOne, PoolTypeOK
  <2>. QED
    BY <2>1, <2>2, <2>3, <2>4, <2>5, <2>6 DEF Wait, AcquireLock
<1>. QED  BY <1>2, <1>3 DEF TypeOK

LEMMA TypeOfBarrier ==
  ASSUME TypeOK, NEW t \in Threads, Barrier(t)
  PROVE  TypeOK'
<1>1. UNCHANGED <<poolVars, graphVars, workVars>>
  BY DEF Barrier, EnterBarrier, ArriveAtBarrier, ResetBarrier, ReleaseBarrier, LeaveBarrier
<1>2. PoolTypeOK' /\ GraphTypeOK' /\ WorkTypeOK'
  BY <1>1, TypeFrames DEF TypeOK
<1>3. ret[t] \in {"head", "chunk", "return", "top"} /\ ret[t] \in Place /\ node[t] \in Nat
  BY Places DEF TypeOK, BarrierTypeOK, WorkTypeOK
<1>4. LetGo(t) => base' \in [node : Nat, after : {"head", "chunk", "out"}]
  BY <1>3 DEF LetGo
<1>5. BarrierTypeOK' /\ pc' \in [Threads -> Place]
  BY <1>3, <1>4, Places, Bounds
  DEF Barrier, EnterBarrier, ArriveAtBarrier, ResetBarrier, ReleaseBarrier, LeaveBarrier,
      Goto, TypeOK, BarrierTypeOK, PoolTypeOK, barrierVars
<1>. QED  BY <1>2, <1>5 DEF TypeOK

LEMMA TypeOfCompute ==
  ASSUME TypeOK, NEW t \in Threads, Compute(t)
  PROVE  TypeOK'
<1>1. UNCHANGED poolVars /\ PoolTypeOK'
  BY TypeFrames
  DEF Compute, BeginGraph, NextNode, ComputeRows, ConvertSrc1, ComputeChunk, FetchChunk, EndNode,
      TypeOK
<1>2. BarrierTypeOK'
  <2>1. ret' \in [Threads -> {"head", "chunk", "return", "top"}]
    BY DEF Compute, BeginGraph, NextNode, ComputeRows, ConvertSrc1, ComputeChunk, FetchChunk,
           EndNode, GotoBarrier, barrierVars, TypeOK, BarrierTypeOK
  <2>2. UNCHANGED <<n_barrier, n_barrier_passed, bar_n, bar_passed, base>>
    BY DEF Compute, BeginGraph, NextNode, ComputeRows, ConvertSrc1, ComputeChunk, FetchChunk,
           EndNode, barrierVars
  <2>. QED  BY <2>1, <2>2 DEF TypeOK, BarrierTypeOK
<1>3. GraphTypeOK'
  BY DEF Compute, BeginGraph, NextNode, ComputeRows, ConvertSrc1, ComputeChunk, FetchChunk,
         EndNode, graphVars, TypeOK, GraphTypeOK, WorkTypeOK
<1>4. WorkTypeOK'
  <2>1. current_chunk' \in Nat /\ nth' \in [Threads -> 0 .. NThreads]
    <3>1. n_graph.n \in 0 .. NThreads /\ nth[t] \in Nat /\ current_chunk \in Nat
      BY Bounds DEF TypeOK, WorkTypeOK, PoolTypeOK
    <3>2. current_chunk' \in {current_chunk, nth[t], current_chunk + 1}
      BY DEF Compute, BeginGraph, NextNode, ComputeRows, ConvertSrc1, ComputeChunk, FetchChunk,
             EndNode, workVars
    <3>3. nth' = nth \/ nth' = [nth EXCEPT ![t] = n_graph.n]
      BY DEF Compute, BeginGraph, NextNode, ComputeRows, ConvertSrc1, ComputeChunk, FetchChunk,
             EndNode, workVars
    <3>. QED  BY <3>1, <3>2, <3>3 DEF TypeOK, WorkTypeOK
  <2>2. node' \in [Threads -> Nat] /\ chunk' \in [Threads -> Nat]
    BY DEF Compute, BeginGraph, NextNode, ComputeRows, ConvertSrc1, ComputeChunk, FetchChunk,
           EndNode, workVars, TypeOK, WorkTypeOK, Threads
  <2>3. /\ node[t] \in Nat /\ chunk[t] \in Nat /\ t \in Nat
        /\ done \subseteq Nat \X {"rows", "src1", "chunk"} \X Nat
    BY DEF TypeOK, WorkTypeOK, Threads
  <2>4. {<<node[t], "rows", t>>, <<node[t], "src1", t>>, <<node[t], "chunk", chunk[t]>>}
          \subseteq Nat \X {"rows", "src1", "chunk"} \X Nat
    BY <2>3
  <2>5. done' \subseteq done \cup {<<node[t], "rows", t>>, <<node[t], "src1", t>>,
                                  <<node[t], "chunk", chunk[t]>>}
    BY DEF Compute, BeginGraph, NextNode, ComputeRows, ConvertSrc1, ComputeChunk, FetchChunk,
           EndNode, workVars
  <2>6. done' \subseteq Nat \X {"rows", "src1", "chunk"} \X Nat
    BY <2>3, <2>4, <2>5
  <2>. QED  BY <2>1, <2>2, <2>6 DEF WorkTypeOK
<1>5. pc' \in [Threads -> Place]
  <2>. USE Places DEF TypeOK, Goto, GotoBarrier
  <2>1. CASE BeginGraph(t) \/ ComputeRows(t) \/ ConvertSrc1(t) \/ FetchChunk(t) \/ EndNode(t)
    BY <2>1 DEF BeginGraph, ComputeRows, ConvertSrc1, FetchChunk, EndNode
  <2>2. CASE ComputeChunk(t)
    BY <2>2 DEF ComputeChunk
  <2>3. CASE NextNode(t)
    <3>1. CASE node[t] + 1 <= Len(cgraph) /\ abort # node[t] + 1
      <4>1. cgraph[node[t] + 1].kind \in {"skip", "rows", "mul_mat"}
        BY <3>1, GraphIsSeq DEF WorkTypeOK
      <4>. QED  BY <2>3, <3>1, <4>1 DEF NextNode
    <3>2. CASE ~(node[t] + 1 <= Len(cgraph) /\ abort # node[t] + 1)
      BY <2>3, <3>2 DEF NextNode
    <3>. QED  BY <3>1, <3>2
  <2>. QED  BY <2>1, <2>2, <2>3 DEF Compute
<1>. QED  BY <1>1, <1>2, <1>3, <1>4, <1>5 DEF TypeOK

LEMMA BroadcastType ==
  ASSUME pc \in [Threads -> Place], NEW t \in Threads, NEW l \in Place, Broadcast(t, l)
  PROVE  pc' \in [Threads -> Place]
<1>1. \A u \in Threads : Woken(pc[u]) \in Place
  BY Places DEF Woken
<1>. QED  BY <1>1 DEF Broadcast

LEMMA TypeOfCaller ==
  ASSUME TypeOK,
         \/ \E g \in Graphs, n \in 1 .. NThreads + 1 : Submit(g, n)
         \/ Kickoff \/ Return \/ StopWorkers \/ Join \/ Locks0 \/ Free \/ Freed
         \/ \E p \in BOOLEAN : PauseOrResume(p)
  PROVE  TypeOK'
<1>. USE Bounds, Places
<1>1. ASSUME NEW g \in Graphs, NEW n \in 1 .. NThreads + 1, Submit(g, n)
      PROVE  TypeOK'
  <2>1. PoolTypeOK' /\ BarrierTypeOK'
    BY <1>1, TypeFrames DEF Submit, TypeOK
  <2>2. GraphTypeOK'
    BY <1>1 DEF Submit, TypeOK, GraphTypeOK
  <2>3. WorkTypeOK' /\ pc' \in [Threads -> Place]
    BY <1>1 DEF Submit, TypeOK, WorkTypeOK, Goto
  <2>. QED  BY <2>1, <2>2, <2>3 DEF TypeOK
<1>2. CASE Kickoff
  <2>1. GraphTypeOK' /\ WorkTypeOK'
    BY <1>2, TypeFrames DEF Kickoff, TypeOK
  <2>2. BarrierTypeOK'
    BY <1>2 DEF Kickoff, TypeOK, BarrierTypeOK
  <2>3. n_graph' \in [count : 0 .. Counts - 1, n : 0 .. NThreads]
    BY <1>2 DEF Kickoff, TypeOK, PoolTypeOK, GraphTypeOK
  <2>4. PoolTypeOK'
    BY <1>2, <2>3 DEF Kickoff, TypeOK, PoolTypeOK, NoOne
  <2>5. pc' \in [Threads -> Place]
    BY <1>2, BroadcastType DEF Kickoff, TypeOK
  <2>. QED  BY <2>1, <2>2, <2>4, <2>5 DEF TypeOK
<1>3. CASE StopWorkers \/ \E p \in BOOLEAN : PauseOrResume(p)
  <2>1. BarrierTypeOK' /\ GraphTypeOK' /\ WorkTypeOK'
    BY <1>3, TypeFrames DEF StopWorkers, PauseOrResume, TypeOK
  <2>2. PoolTypeOK'
    BY <1>3 DEF StopWorkers, PauseOrResume, TypeOK, PoolTypeOK, NoOne
  <2>3. pc[0] \in Place
    BY DEF TypeOK
  <2>4. pc' \in [Threads -> Place]
    BY <1>3, <2>3, BroadcastType DEF StopWorkers, PauseOrResume, TypeOK
  <2>. QED  BY <2>1, <2>2, <2>4 DEF TypeOK
<1>4. CASE Return \/ Join \/ Free \/ Freed
  BY <1>4, TypeFrames DEF Return, Join, Free, Freed, TypeOK, Goto, vars
<1>5. CASE Locks0
  <2>1. BarrierTypeOK' /\ GraphTypeOK' /\ WorkTypeOK'
    BY <1>5, TypeFrames DEF Locks0, KickLock, FreeLock, TypeOK
  <2>2. PoolTypeOK' /\ pc' \in [Threads -> Place]
    BY <1>5 DEF Locks0, KickLock, FreeLock, Lock, TypeOK, PoolTypeOK, Goto
  <2>. QED  BY <2>1, <2>2 DEF TypeOK
<1>. QED  BY <1>1, <1>2, <1>3, <1>4, <1>5

LEMMA TypeStep ==
  ASSUME TypeOK, [Next]_vars
  PROVE  TypeOK'
<1>1. CASE UNCHANGED vars
  BY <1>1, TypeFrames DEF vars, TypeOK
<1>2. CASE Steps0
  BY <1>2, Bounds, TypeOfCompute, TypeOfBarrier, TypeOfCaller DEF Steps0
<1>3. ASSUME NEW w \in Workers, StepsW(w)
      PROVE  TypeOK'
  BY <1>3, Bounds, TypeOfCompute, TypeOfBarrier, TypeOfWait DEF StepsW
<1>. QED
  BY <1>1, <1>2, <1>3, TypeOfCaller, TypeOfWait DEF Next

LEMMA TypeInit ==
  ASSUME Init
  PROVE  TypeOK
<1>1. pc \in [Threads -> Place]
  BY Places DEF Init
<1>. QED
  BY <1>1, Bounds
  DEF Init, TypeOK, PoolTypeOK, BarrierTypeOK, GraphTypeOK, WorkTypeOK, NoOne

-----------------------------------------------------------------------------
(* Steps outside of the graph.                                             *)

\* The states in which a worker rests, and the caller.
Rest == (Waiting \ {"work"}) \cup {"paused?", "check", "wait"}

Call == Calling \cup {"kick", "freeing"}

LEMMA StatesApart ==
  /\ Rest \cap (Computing \cup Call \cup {"work"}) = {}
  /\ Call \cap (Computing \cup Waiting) = {}
  /\ "work" \notin Computing
BY DEF Rest, Call, Waiting, Calling, Computing, AtNode, InBarrier

LEMMA RestFrame ==
  ASSUME NEW u \in Threads, UNCHANGED n_barrier_passed,
         pc'[u] = pc[u], ret'[u] = ret[u], bar_passed'[u] = bar_passed[u]
  PROVE  (Lags(u)' <=> Lags(u)) /\ (Resting(u)' <=> Resting(u))
BY DEF Lags, Resting, OutOf

\* The barrier does not see a step of threads that are not in it.
LEMMA BarrierFrame ==
  ASSUME BarrierInv, Active \subseteq Threads,
         UNCHANGED <<n_graph, n_barrier, n_barrier_passed, bar_n, bar_passed>>,
         \A u \in Threads :
            \/ pc'[u] = pc[u]
            \/ {pc[u], pc'[u]} \cap {"arrive", "last", "release", "spin"} = {}
  PROVE  BarrierInv'
<1>1. Arrived' = Arrived /\ Active' = Active
  BY DEF Arrived, Active
<1>. QED  BY <1>1 DEF BarrierInv, Lags

LEMMA ActiveThreads ==
  ASSUME TypeOK
  PROVE  Active \subseteq Threads /\ IsFiniteSet(Active) /\ Cardinality(Active) = n_graph.n
<1>1. n_graph.n \in 0 .. NThreads
  BY DEF TypeOK, PoolTypeOK
<1>2. 0 \in Int /\ n_graph.n - 1 \in Int
  BY <1>1, Bounds
<1>3. /\ IsFiniteSet(0 .. n_graph.n - 1)
      /\ Cardinality(0 .. n_graph.n - 1) = IF 0 > n_graph.n - 1 THEN 0 ELSE n_graph.n - 1 - 0 + 1
  BY <1>2, FS_Interval
<1>. QED  BY <1>1, <1>3, Bounds DEF Active, Threads

\* Threads that only move between states of rest: locking, sleeping, waking,
\* pausing, freeing.
RestMoves ==
    /\ UNCHANGED <<n_graph, last_graph, pending, barrierVars, graphVars, workVars>>
    /\ \A u \in Workers : pc'[u] = pc[u] \/ {pc[u], pc'[u]} \subseteq Rest
    /\ \/ pc'[0] = pc[0]
       \/ {pc[0], pc'[0]} \subseteq Call /\ pc'[0] # "return"
          /\ (pc'[0] \in {"kicklock", "kick"} => pc[0] \in {"kicklock", "kick"})

LEMMA RestStep ==
  ASSUME IInv, TypeOK', RestMoves
  PROVE  IInv'
<1>. USE Bounds DEF IInv
<1>1. UNCHANGED <<n_graph, last_graph, pending, n_barrier, n_barrier_passed, bar_n, bar_passed,
                  ret, base, abort, ec, cgraph, asked, computed, current_chunk, nth, node, chunk,
                  done>>
  BY DEF RestMoves, barrierVars, graphVars, workVars
<1>2. \A u \in Threads : (Lags(u)' <=> Lags(u)) /\ (Resting(u)' <=> Resting(u))
  <2>1. \A u \in Workers : u # 0 /\ u \in Threads
    BY DEF Workers, Threads
  <2>2. \A u \in Workers : pc'[u] # pc[u] => ~Lags(u) /\ ~Lags(u)' /\ Resting(u) /\ Resting(u)'
    BY <2>1 DEF RestMoves, Rest, Lags, Resting, Waiting
  <2>3. pc'[0] # pc[0] => ~Lags(0) /\ ~Lags(0)' /\ Resting(0) /\ Resting(0)'
    BY DEF RestMoves, Call, Lags, Resting, Calling
  <2>4. \A u \in Threads : u = 0 \/ u \in Workers
    BY DEF Threads, Workers
  <2>. QED  BY <1>1, <2>2, <2>3, <2>4, RestFrame
<1>3. Active' = Active /\ Active \subseteq Threads
  BY <1>1, ActiveThreads DEF Active
<1>4. CallerInv'
  BY <1>1, <1>2, StatesApart DEF CallerInv, RestMoves, Call, Computing, Calling, Waiting, AtNode, InBarrier
<1>5. WorkerInv'
  BY <1>1, <1>2, <1>3, StatesApart DEF WorkerInv, RestMoves, Workers, Threads, Rest, Call
<1>6. PlacedInv'
  <2>. SUFFICES ASSUME NEW u \in Active, ~Resting(u)
                PROVE  Placed(u)'
    BY <1>2, <1>3 DEF PlacedInv
  <2>1. pc'[u] = pc[u]
    BY <1>2, <1>3 DEF RestMoves, Resting, Workers, Threads, Rest, Call
  <2>2. Placed(u)
    BY DEF PlacedInv
  <2>. QED
    BY <1>1, <1>2, <1>3, <2>1, <2>2
    DEF Placed, AtHead, AtBarrier, Ended, Ending, Reached, EndsHere, OnlySkips, RowsDone,
        ChunksGone, Start, OutOf
<1>7. BarrierInv'
  <2>1. \A u \in Threads : \/ pc'[u] = pc[u]
                           \/ {pc[u], pc'[u]} \cap {"arrive", "last", "release", "spin"} = {}
    BY DEF RestMoves, Workers, Threads, Rest, Call, Waiting, Calling
  <2>. QED  BY <1>1, <1>3, <2>1, BarrierFrame
<1>8. AbortInv'
  BY <1>1 DEF AbortInv, Reached, OnlySkips
<1>9. DoneInv'
  <2>1. pc'[0] \in Computing \cup {"return"} => pc[0] = pc'[0]
    BY StatesApart DEF RestMoves
  <2>. QED  BY <1>1, <1>3, <2>1 DEF DoneInv, Reached, OnlySkips
<1>10. ChunkInv'
  <2>1. \A u \in Active : (pc'[u] = "chunk") <=> (pc[u] = "chunk")
    BY <1>3 DEF RestMoves, Rest, Call, Workers, Threads, Waiting, Calling
  <2>2. \A u \in Active : \A c \in Nat : Holds(u, c)' <=> Holds(u, c)
    BY <1>1, <1>2, <1>3, <2>1 DEF Holds
  <2>3. \A u \in Active : chunk[u] \in Nat
    BY <1>3 DEF TypeOK, WorkTypeOK
  <2>4. \A u \in Active : Holds(u, chunk[u])' <=> Holds(u, chunk[u])
    BY <1>1, <2>2, <2>3
  <2>5. base.after = "chunk" => \A c \in 0 .. cgraph[base.node].chunks - 1 : c \in Nat
    OBVIOUS
  <2>. QED  BY <1>1, <1>3, <2>2, <2>4, <2>5 DEF ChunkInv
<1>. QED
  BY <1>4, <1>5, <1>6, <1>7, <1>8, <1>9, <1>10

\* A worker looks for work, and finds the graph or does not.
LEMMA ReadyStep ==
  ASSUME IInv, TypeOK', NEW w \in Workers, PollForWork(w) \/ CheckForWork(w)
  PROVE  IInv'
<1>. USE Bounds DEF IInv
<1>1. /\ UNCHANGED <<n_graph, n_barrier, n_barrier_passed, bar_n, bar_passed, ret, base, abort,
                     ec, cgraph, asked, computed, current_chunk, nth, node, chunk, done>>
      /\ ThreadReady(w)
      /\ pc[w] \in {"poll", "check"}
      /\ pc' = [pc EXCEPT ![w] = pc'[w]]
      /\ pc'[w] \in {"work", "lock", "top", "wait"}
      /\ pc'[w] = "work" <=> pending'[w]
  BY DEF PollForWork, CheckForWork, Ready, ThreadReady, SeesGraph, Goto, barrierVars, graphVars,
         workVars, TypeOK, PoolTypeOK
<1>2. w \in Threads /\ w # 0 /\ Resting(w) /\ ~Lags(w) /\ ~Lags(w)' /\ ~pending[w]
  BY <1>1 DEF Workers, Threads, Resting, Waiting, Lags, WorkerInv
<1>3. \A u \in Threads \ {w} : /\ pc'[u] = pc[u]
                               /\ (Lags(u)' <=> Lags(u)) /\ (Resting(u)' <=> Resting(u))
  BY <1>1, <1>2, RestFrame DEF TypeOK
<1>4. Active' = Active /\ Active \subseteq Threads
  BY <1>1, ActiveThreads DEF Active
<1>5. CASE pc'[w] = "work"
  <2>1. /\ n_graph # last_graph[w] /\ w < n_graph.n
        /\ pending' = [pending EXCEPT ![w] = TRUE]
        /\ last_graph' = [last_graph EXCEPT ![w] = n_graph]
    BY <1>1, <1>2, <1>5 DEF ThreadReady, SeesGraph, TypeOK, PoolTypeOK
  <2>2. w \in Active
    BY <2>1 DEF Active, Workers, TypeOK, PoolTypeOK
  <2>3. base.after # "out" /\ base = Start
    BY <1>2, <2>1, <2>2 DEF WorkerInv
  <2>4. ~Resting(w)'
    BY <1>2, <1>5 DEF Resting, Waiting
  <2>5. CallerInv'
    BY <1>1, <1>2, <1>3 DEF CallerInv
  <2>6. WorkerInv'
    <3>1. \A u \in Workers \ {w} : pending'[u] = pending[u] /\ last_graph'[u] = last_graph[u]
      BY <2>1 DEF TypeOK, PoolTypeOK
    <3>2. pending'[w] /\ last_graph'[w] = n_graph
      BY <2>1 DEF TypeOK, PoolTypeOK
    <3>. QED
      BY <1>1, <1>3, <1>4, <1>5, <2>2, <2>3, <2>4, <3>1, <3>2
      DEF WorkerInv, Calling
  <2>7. PlacedInv'
    <3>. SUFFICES ASSUME NEW u \in Active, ~Resting(u)'
                  PROVE  Placed(u)'
      BY <1>4 DEF PlacedInv
    <3>1. CASE u = w
      BY <1>1, <1>2, <1>5, <2>3, <3>1 DEF Placed, InBarrier
    <3>2. CASE u # w
      <4>1. Placed(u) /\ pc'[u] = pc[u] /\ (Lags(u)' <=> Lags(u))
        BY <1>3, <1>4, <3>2 DEF PlacedInv
      <4>. QED
        BY <1>1, <4>1
        DEF Placed, AtHead, AtBarrier, Ended, Ending, Reached, EndsHere, OnlySkips, RowsDone,
            ChunksGone, Start, OutOf
    <3>. QED  BY <3>1, <3>2
  <2>8. BarrierInv'
    BY <1>1, <1>3, <1>4, <1>5, BarrierFrame
  <2>9. AbortInv'
    BY <1>1 DEF AbortInv, Reached, OnlySkips
  <2>10. DoneInv'
    BY <1>1, <1>2, <1>3, <1>4 DEF DoneInv, Reached, OnlySkips
  <2>11. ChunkInv'
    BY <1>1, <2>3 DEF ChunkInv, Start
  <2>. QED  BY <2>5, <2>6, <2>7, <2>8, <2>9, <2>10, <2>11
<1>6. CASE pc'[w] # "work"
  <2>1. /\ pending' = pending
        /\ \/ last_graph' = last_graph
           \/ w \notin Active /\ last_graph' = [last_graph EXCEPT ![w] = n_graph]
    <3>1. ~pending'[w] /\ pending' = [pending EXCEPT ![w] = pending'[w]]
      BY <1>1, <1>6 DEF ThreadReady, TypeOK, PoolTypeOK
    <3>2. SeesGraph(w) => ~(w < n_graph.n)
      BY <1>1, <3>1 DEF ThreadReady, TypeOK, PoolTypeOK
    <3>3. SeesGraph(w) => w \notin Active
      BY <3>2 DEF Active, Workers, TypeOK, PoolTypeOK
    <3>4. pending' = pending
      BY <1>2, <3>1 DEF TypeOK, PoolTypeOK
    <3>5. CASE SeesGraph(w)
      BY <1>1, <3>3, <3>4, <3>5 DEF ThreadReady
    <3>6. CASE ~SeesGraph(w)
      BY <1>1, <3>4, <3>6 DEF ThreadReady, TypeOK, PoolTypeOK
    <3>. QED  BY <3>5, <3>6
  <2>2. Resting(w)' /\ pc'[w] \notin Computing
    BY <1>1, <1>2, <1>6 DEF Resting, Waiting, Computing, AtNode, InBarrier
  <2>3. CallerInv'
    BY <1>1, <1>2, <1>3 DEF CallerInv
  <2>4. WorkerInv'
    BY <1>1, <1>2, <1>3, <1>4, <1>6, <2>1, <2>2 DEF WorkerInv, TypeOK, PoolTypeOK, Calling
  <2>5. PlacedInv'
    <3>. SUFFICES ASSUME NEW u \in Active, ~Resting(u)'
                  PROVE  Placed(u)'
      BY <1>4 DEF PlacedInv
    <3>1. Placed(u) /\ pc'[u] = pc[u] /\ (Lags(u)' <=> Lags(u))
      BY <1>3, <1>4, <2>2 DEF PlacedInv
    <3>. QED
      BY <1>1, <3>1
      DEF Placed, AtHead, AtBarrier, Ended, Ending, Reached, EndsHere, OnlySkips, RowsDone,
          ChunksGone, Start, OutOf
  <2>6. BarrierInv'
    BY <1>1, <1>3, <1>4, <1>6, BarrierFrame
  <2>7. AbortInv'
    BY <1>1 DEF AbortInv, Reached, OnlySkips
  <2>8. DoneInv'
    BY <1>1, <1>2, <1>3, <1>4 DEF DoneInv, Reached, OnlySkips
  <2>9. ChunkInv'
    <3>1. \A u \in Active : \A c : Holds(u, c)' <=> Holds(u, c)
      BY <1>1, <1>2, <1>3, <1>4, <2>2 DEF Holds
    <3>. QED  BY <1>1, <1>4, <3>1 DEF ChunkInv
  <2>. QED  BY <2>3, <2>4, <2>5, <2>6, <2>7, <2>8, <2>9
<1>. QED  BY <1>5, <1>6

LEMMA StartStep ==
  ASSUME IInv, TypeOK', NEW w \in Workers, StartWork(w)
  PROVE  IInv'
<1>. USE Bounds DEF IInv
<1>1. /\ UNCHANGED <<n_graph, last_graph, n_barrier, n_barrier_passed, bar_n, bar_passed, ret,
                     base, abort, ec, cgraph, asked, computed, current_chunk, nth, node, chunk,
                     done>>
      /\ pc[w] = "work" /\ pc'[w] = "begin"
      /\ w \in Threads /\ w # 0
      /\ \A u \in Threads \ {w} : pc'[u] = pc[u]
      /\ ~pending'[w] /\ \A u \in Workers \ {w} : pending'[u] = pending[u]
  BY DEF StartWork, Goto, barrierVars, graphVars, workVars, TypeOK, PoolTypeOK, Workers, Threads
<1>2. ~Lags(w) /\ ~Lags(w)' /\ ~Resting(w) /\ ~Resting(w)' /\ w \in Active /\ base = Start
  BY <1>1 DEF Lags, Resting, Waiting, WorkerInv, PlacedInv, Placed
<1>3. \A u \in Threads : (Lags(u)' <=> Lags(u)) /\ (Resting(u)' <=> Resting(u))
  BY <1>1, <1>2, RestFrame
<1>4. Active' = Active /\ Active \subseteq Threads
  BY <1>1, ActiveThreads DEF Active
<1>5. CallerInv'
  BY <1>1, <1>3 DEF CallerInv
<1>6. WorkerInv'
  BY <1>1, <1>2, <1>3, <1>4 DEF WorkerInv, Calling
<1>7. PlacedInv'
  <2>. SUFFICES ASSUME NEW u \in Active, ~Resting(u)'
                PROVE  Placed(u)'
    BY <1>4 DEF PlacedInv
  <2>1. CASE u = w
    BY <1>1, <1>2, <2>1 DEF Placed, InBarrier
  <2>2. CASE u # w
    <3>1. Placed(u) /\ pc'[u] = pc[u] /\ (Lags(u)' <=> Lags(u))
      BY <1>1, <1>3, <1>4, <2>2 DEF PlacedInv
    <3>. QED
      BY <1>1, <3>1
      DEF Placed, AtHead, AtBarrier, Ended, Ending, Reached, EndsHere, OnlySkips, RowsDone,
          ChunksGone, Start, OutOf
  <2>. QED  BY <2>1, <2>2
<1>8. BarrierInv'
  BY <1>1, <1>4, BarrierFrame
<1>9. AbortInv'
  BY <1>1 DEF AbortInv, Reached, OnlySkips
<1>10. DoneInv'
  BY <1>1, <1>4 DEF DoneInv, Reached, OnlySkips
<1>11. ChunkInv'
  BY <1>1, <1>2 DEF ChunkInv, Start
<1>. QED  BY <1>5, <1>6, <1>7, <1>8, <1>9, <1>10, <1>11

\* Every other step of a worker that does not compute.
LEMMA WaitStep ==
  ASSUME IInv, TypeOK', NEW w \in Workers, Wait(w) \/ AcquireLock(w) \/ SpuriousWakeup(w)
  PROVE  IInv'
<1>1. CASE PollForWork(w) \/ CheckForWork(w)
  BY <1>1, ReadyStep
<1>2. CASE StartWork(w)
  BY <1>2, StartStep
<1>3. CASE \/ CheckPause(w) \/ PauseWait(w) \/ CheckStop(w) \/ CondWait(w)
           \/ AcquireLock(w) \/ SpuriousWakeup(w)
  <2>1. UNCHANGED <<n_graph, last_graph, pending, barrierVars, graphVars, workVars>>
    BY <1>3 DEF CheckPause, PauseWait, CheckStop, CondWait, AcquireLock, PauseLock, WorkLock,
                PauseWake, SpuriousWakeup, poolVars
  <2>2. {pc[w], pc'[w]} \subseteq Rest /\ pc' = [pc EXCEPT ![w] = pc'[w]]
    BY <1>3, Bounds
    DEF CheckPause, PauseWait, CheckStop, CondWait, AcquireLock, PauseLock, WorkLock, PauseWake,
        SpuriousWakeup, Woken, Goto, Lock, Rest, Waiting, IInv, TypeOK
  <2>3. 0 \notin Workers
    BY DEF Workers
  <2>4. RestMoves
    BY <2>1, <2>2, <2>3, Bounds DEF RestMoves, IInv, TypeOK
  <2>. QED  BY <2>4, RestStep
<1>. QED  BY <1>1, <1>2, <1>3 DEF Wait

\* The caller locks, pauses, resumes, frees and joins.
LEMMA CallerRestStep ==
  ASSUME IInv, TypeOK',
         \/ Return \/ StopWorkers \/ Join \/ Locks0 \/ Free
         \/ \E p \in BOOLEAN : PauseOrResume(p)
  PROVE  IInv'
<1>1. 0 \in Threads /\ Workers \subseteq Threads /\ 0 \notin Workers
  BY Bounds DEF Workers
<1>2. \A u \in Threads : Woken(pc[u]) = pc[u] \/ {pc[u], Woken(pc[u])} \subseteq Rest
  BY DEF Woken, Rest, Waiting
<1>3. CASE Return \/ Join \/ Locks0 \/ Free
  <2>1. UNCHANGED <<n_graph, last_graph, pending, barrierVars, graphVars, workVars>>
    BY <1>3 DEF Return, Join, Locks0, KickLock, FreeLock, Free, poolVars
  <2>2. /\ \A u \in Workers : pc'[u] = pc[u]
        /\ {pc[0], pc'[0]} \subseteq Call /\ pc'[0] # "return"
        /\ pc'[0] \in {"kicklock", "kick"} => pc[0] \in {"kicklock", "kick"}
    BY <1>1, <1>3
    DEF Return, Join, Locks0, KickLock, FreeLock, Free, Goto, Lock, Call, Calling, IInv, TypeOK
  <2>. QED  BY <2>1, <2>2, RestStep DEF RestMoves
<1>4. CASE StopWorkers \/ \E p \in BOOLEAN : PauseOrResume(p)
  <2>1. UNCHANGED <<n_graph, last_graph, pending, barrierVars, graphVars, workVars>>
    BY <1>4 DEF StopWorkers, PauseOrResume
  <2>2. \A u \in Workers : pc'[u] = Woken(pc[u])
    BY <1>1, <1>4 DEF StopWorkers, PauseOrResume, Broadcast
  <2>3. pc'[0] = pc[0] \/ (pc[0] = "freeing" /\ pc'[0] = "join")
    BY <1>1, <1>4 DEF StopWorkers, PauseOrResume, Broadcast
  <2>4. RestMoves
    BY <1>1, <1>2, <2>1, <2>2, <2>3 DEF RestMoves, Call, Calling
  <2>. QED  BY <2>4, RestStep
<1>. QED  BY <1>3, <1>4

\* Outside of the graph only the types and the parameters matter.
LEMMA SubmitStep ==
  ASSUME IInv, TypeOK', NEW g \in Graphs, NEW n \in 1 .. NThreads + 1, Submit(g, n)
  PROVE  IInv'
<1>. USE Bounds DEF IInv
<1>1. /\ UNCHANGED <<n_graph, last_graph, pending, n_barrier, n_barrier_passed, bar_n, bar_passed,
                     ret, base, nth, node, chunk>>
      /\ pc[0] = "idle" /\ pc'[0] = "kicklock" /\ asked' > 0
      /\ abort' = 0 /\ ec' = "success" /\ done' = {}
      /\ \A u \in Workers : pc'[u] = pc[u]
  BY DEF Submit, Goto, barrierVars, poolVars, TypeOK, Workers, Threads
<1>2. /\ ~Lags(0) /\ ~Lags(0)' /\ Resting(0) /\ Resting(0)' /\ base.after = "out"
      /\ \A u \in Workers : Resting(u)
  BY <1>1 DEF Lags, Resting, Calling, CallerInv, WorkerInv
<1>3. \A u \in Threads : u = 0 \/ u \in Workers
  BY DEF Workers, Threads
<1>4. \A u \in Threads : Resting(u)'
  BY <1>1, <1>2, <1>3, RestFrame
<1>5. Active' = Active /\ Active \subseteq Threads
  BY <1>1, ActiveThreads DEF Active
<1>6. CallerInv'
  BY <1>1, <1>2 DEF CallerInv, Computing, AtNode, InBarrier, Waiting
<1>7. WorkerInv'
  BY <1>1, <1>2, <1>4, <1>5 DEF WorkerInv
<1>8. PlacedInv'
  BY <1>4, <1>5 DEF PlacedInv
<1>9. BarrierInv'
  <2>1. \A u \in Threads : \/ pc'[u] = pc[u]
                           \/ {pc[u], pc'[u]} \cap {"arrive", "last", "release", "spin"} = {}
    BY <1>1, <1>3
  <2>. QED  BY <1>1, <1>5, <2>1, BarrierFrame
<1>10. AbortInv'
  BY <1>1, <1>2 DEF AbortInv
<1>11. DoneInv'
  BY <1>1, <1>2 DEF DoneInv, Computing, AtNode, InBarrier
<1>12. ChunkInv'
  BY <1>1, <1>2 DEF ChunkInv
<1>. QED  BY <1>6, <1>7, <1>8, <1>9, <1>10, <1>11, <1>12

\* The graph starts: all threads but the caller rest, and nobody is in a
\* barrier that was not released.
LEMMA KickoffStep ==
  ASSUME IInv, TypeOK', Kickoff
  PROVE  IInv'
<1>. USE Bounds DEF IInv
<1>1. /\ UNCHANGED <<last_graph, pending, n_barrier, n_barrier_passed, bar_n, bar_passed, ret,
                     abort, ec, cgraph, asked, computed, current_chunk, nth, node, chunk, done>>
      /\ pc[0] = "kick" /\ pc'[0] = "begin" /\ base' = Start /\ n_graph'.n = asked
      /\ asked > 0 /\ asked \in 0 .. NThreads
      /\ \A u \in Workers : u # 0 /\ pc'[u] = Woken(pc[u])
  BY DEF Kickoff, Broadcast, barrierVars, graphVars, workVars, Workers, Threads, Start, CallerInv,
         TypeOK, GraphTypeOK
<1>2. \A u \in Threads : u = 0 \/ u \in Workers
  BY DEF Workers, Threads
<1>3. /\ base.after = "out" /\ Resting(0) /\ ~Lags(0) /\ ~Lags(0)' /\ ~Resting(0)'
      /\ \A u \in Workers : Resting(u)
  BY <1>1 DEF Lags, Resting, Calling, CallerInv, WorkerInv
<1>4. \A u \in Workers : Resting(u)' /\ (Lags(u)' <=> Lags(u))
                        /\ pc'[u] \notin Calling \cup {"kick", "freeing", "work", "arrive",
                                                      "last", "release"}
                        /\ (pc'[u] = "spin" => Lags(u)')
                        /\ (pc'[u] = "spin" <=> pc[u] = "spin")
  BY <1>1, <1>3 DEF Resting, Lags, OutOf, Woken, Waiting, Calling
<1>5. \A u \in Threads : pc[u] \notin {"last", "release"} /\ pc'[u] \notin {"last", "release"}
  BY <1>1, <1>2, <1>3, <1>4 DEF Resting, Lags, Waiting
<1>6. Arrived = {} /\ Arrived' = {}
  <2>1. Active \subseteq Threads /\ Active' \subseteq Threads
    BY ActiveThreads, SMTT(30) DEF Active, Threads, TypeOK, PoolTypeOK
  <2>2. \A u \in Threads : pc[u] = "spin" => bar_passed[u] # n_barrier_passed
    BY <1>1, <1>2, <1>3 DEF Resting, Lags, Waiting
  <2>3. \A u \in Threads : pc'[u] = "spin" => bar_passed'[u] # n_barrier_passed'
    BY <1>1, <1>2, <1>4 DEF Lags
  <2>. QED  BY <2>1, <2>2, <2>3 DEF Arrived
<1>7. CallerInv'
  BY <1>1, <1>3 DEF CallerInv, Start, Waiting
<1>8. WorkerInv'
  <2>1. base'.after = "head" /\ \A u \in Workers : ~pending[u]
    BY <1>1, <1>3 DEF WorkerInv, Start, Resting, Lags, Waiting
  <2>. QED  BY <1>1, <1>4, <2>1 DEF WorkerInv
<1>9. PlacedInv'
  <2>. SUFFICES ASSUME NEW u \in Active', ~Resting(u)'
                PROVE  Placed(u)'
    BY DEF PlacedInv
  <2>1. u = 0
    BY <1>1, <1>2, <1>4 DEF Active, Threads
  <2>. QED  BY <1>1, <1>3, <2>1 DEF Placed, InBarrier
<1>10. BarrierInv'
  <2>1. n_barrier = 0
    BY <1>5, <1>6, FS_EmptySet DEF BarrierInv
  <2>2. Cardinality(Arrived') = 0
    BY <1>6, FS_EmptySet
  <2>3. \A u \in Threads : /\ pc'[u] # "arrive"
                           /\ pc'[u] = "spin" => Lags(u)' /\ pc[u] = "spin"
    BY <1>1, <1>2, <1>4
  <2>. QED  BY <1>1, <1>5, <2>1, <2>2, <2>3 DEF BarrierInv
<1>11. AbortInv' /\ DoneInv' /\ ChunkInv'
  <2>1. abort = 0 /\ done = {}
    BY <1>1 DEF CallerInv
  <2>. QED  BY <1>1, <2>1 DEF AbortInv, DoneInv, ChunkInv, Start
<1>. QED  BY <1>7, <1>8, <1>9, <1>10, <1>11

-----------------------------------------------------------------------------
(* Steps of a thread between two barriers.                                 *)

LEMMA ThreadActive ==
  ASSUME IInv, NEW t \in Threads, pc[t] \in Computing, ~Resting(t)
  PROVE  /\ t \in Active /\ base.after # "out" /\ Placed(t)
         /\ n_graph.n \in Nat /\ n_graph.n > 0
         /\ t # 0 => t \in Workers
<1>. USE Bounds DEF IInv
<1>1. n_graph.n \in 0 .. NThreads /\ t \in 0 .. NThreads - 1
  BY DEF TypeOK, PoolTypeOK, Threads
<1>2. t \in Active /\ base.after # "out"
  <2>1. CASE t = 0
    BY <1>1, <2>1 DEF CallerInv, Active
  <2>2. CASE t # 0
    BY <1>1, <2>2 DEF WorkerInv, Workers
  <2>. QED  BY <2>1, <2>2
<1>. QED  BY <1>1, <1>2 DEF CallerInv, PlacedInv, Workers

\* What all these steps have in common.
LEMMA ComputeFacts ==
  ASSUME IInv, TypeOK', NEW t \in Threads, Compute(t)
  PROVE  /\ UNCHANGED <<n_graph, last_graph, pending, n_barrier, n_barrier_passed, bar_n,
                        bar_passed, base, cgraph, asked>>
         /\ \A u \in Threads : u # t =>
               /\ pc'[u] = pc[u] /\ ret'[u] = ret[u] /\ node'[u] = node[u]
               /\ nth'[u] = nth[u] /\ chunk'[u] = chunk[u]
               /\ (Lags(u)' <=> Lags(u)) /\ (Resting(u)' <=> Resting(u))
         /\ pc[t] \in {"begin", "head"} \cup AtNode
         /\ pc'[t] \in {"head", "barrier"} \cup AtNode
         /\ ~Lags(t) /\ ~Lags(t)' /\ ~Resting(t) /\ ~Resting(t)'
         /\ t \in Active /\ base.after # "out" /\ Placed(t)
         /\ Active' = Active /\ Active \subseteq Threads
         /\ 0 \in Active /\ n_graph.n \in Nat /\ n_graph.n > 0
<1>1. /\ UNCHANGED <<n_graph, last_graph, pending, n_barrier, n_barrier_passed, bar_n, bar_passed,
                     base, cgraph, asked>>
      /\ pc[t] \in {"begin", "head"} \cup AtNode
  BY DEF Compute, BeginGraph, NextNode, ComputeRows, ConvertSrc1, ComputeChunk, FetchChunk, EndNode,
         poolVars, barrierVars, graphVars, AtNode
<1>2. \A u \in Threads : u # t =>
            /\ pc'[u] = pc[u] /\ ret'[u] = ret[u] /\ node'[u] = node[u]
            /\ nth'[u] = nth[u] /\ chunk'[u] = chunk[u]
  <2>. USE DEF Goto, GotoBarrier, barrierVars, workVars, IInv, TypeOK, BarrierTypeOK, WorkTypeOK
  <2>1. CASE BeginGraph(t) \/ ComputeRows(t) \/ ComputeChunk(t) \/ FetchChunk(t)
    BY <2>1 DEF BeginGraph, ComputeRows, ComputeChunk, FetchChunk
  <2>2. CASE NextNode(t)
    <3>1. UNCHANGED <<nth, chunk>> /\ \A u \in Threads : u # t => node'[u] = node[u]
      BY <2>2 DEF NextNode
    <3>2. \A u \in Threads : u # t => pc'[u] = pc[u] /\ ret'[u] = ret[u]
      <4>1. CASE node[t] + 1 <= Len(cgraph) /\ abort # node[t] + 1
        BY <2>2, <4>1 DEF NextNode
      <4>2. CASE ~(node[t] + 1 <= Len(cgraph) /\ abort # node[t] + 1)
        BY <2>2, <4>2 DEF NextNode
      <4>. QED  BY <4>1, <4>2
    <3>. QED  BY <3>1, <3>2
  <2>3. CASE ConvertSrc1(t) \/ EndNode(t)
    BY <2>3, SMTT(30) DEF ConvertSrc1, EndNode
  <2>. QED  BY <2>1, <2>2, <2>3 DEF Compute
<1>3. pc'[t] \in {"head", "barrier"} \cup AtNode
  <2>1. CASE NextNode(t)
    <3>1. node[t] + 1 <= Len(cgraph) =>
             cgraph[node[t] + 1].kind \in {"skip", "rows", "mul_mat"}
      BY GraphIsSeq, SMTT(30) DEF IInv, TypeOK, WorkTypeOK
    <3>. QED  BY <2>1, <3>1 DEF NextNode, Goto, GotoBarrier, AtNode, IInv, TypeOK
  <2>2. CASE ~NextNode(t)
    BY <2>2 DEF Compute, BeginGraph, ComputeRows, ConvertSrc1, ComputeChunk, FetchChunk, EndNode,
                Goto, GotoBarrier, AtNode, IInv, TypeOK
  <2>. QED  BY <2>1, <2>2
<1>4. ~Lags(t) /\ ~Lags(t)' /\ ~Resting(t) /\ ~Resting(t)' /\ pc[t] \in Computing
  BY <1>1, <1>3 DEF Lags, Resting, Calling, Waiting, AtNode, Computing
<1>5. \A u \in Threads : u # t => (Lags(u)' <=> Lags(u)) /\ (Resting(u)' <=> Resting(u))
  BY <1>1, <1>2, RestFrame
<1>6. t \in Active /\ base.after # "out" /\ Placed(t) /\ n_graph.n \in Nat /\ n_graph.n > 0
  BY <1>4, ThreadActive
<1>7. Active' = Active /\ Active \subseteq Threads /\ 0 \in Active
  BY <1>1, <1>6, ActiveThreads DEF Active, IInv
<1>. QED  BY <1>1, <1>2, <1>3, <1>4, <1>5, <1>6, <1>7

LEMMA ComputeKeeps ==
  ASSUME IInv, TypeOK', NEW t \in Threads, Compute(t)
  PROVE  CallerInv' /\ WorkerInv' /\ BarrierInv'
<1>. USE ComputeFacts, Bounds DEF IInv
<1>1. CallerInv'
  <2>1. pc[0] \notin {"kicklock", "kick"} /\ ~Resting(0) /\ ~Resting(0)'
    BY DEF CallerInv, Resting, Calling
  <2>2. CASE t = 0
    BY <2>1, <2>2 DEF CallerInv, AtNode, Computing, Waiting
  <2>3. CASE t # 0
    BY <2>1, <2>3 DEF CallerInv
  <2>. QED  BY <2>2, <2>3
<1>2. WorkerInv'
  <2>. SUFFICES ASSUME NEW w \in Workers
                PROVE  /\ pc'[w] \notin Calling \cup {"kick", "freeing"}
                       /\ pending'[w] <=> pc'[w] = "work"
                       /\ w \notin Active' => Resting(w)'
                       /\ base'.after = "out" => Resting(w)'
                       /\ w \in Active' /\ (base'.after = "out" \/ ~Resting(w)')
                             => last_graph'[w] = n_graph'
                       /\ w \in Active' /\ base'.after # "out" /\ Resting(w)' => base' = Start
    BY DEF WorkerInv, Start
  <2>1. CASE w = t
    BY <2>1 DEF WorkerInv, AtNode, Calling
  <2>2. CASE w # t
    BY <2>2 DEF WorkerInv
  <2>. QED  BY <2>1, <2>2
<1>3. BarrierInv'
  BY BarrierFrame DEF AtNode
<1>. QED  BY <1>1, <1>2, <1>3

\* The other threads stay where they belong when parts get done, and when
\* current_chunk is not set under their feet.
LEMMA PlacedFrame ==
  ASSUME IInv, NEW u \in Threads, Placed(u),
         UNCHANGED <<n_graph, base, cgraph, abort>>,
         pc'[u] = pc[u], ret'[u] = ret[u], node'[u] = node[u], nth'[u] = nth[u],
         chunk'[u] = chunk[u], Lags(u)' <=> Lags(u),
         done \subseteq done', current_chunk' \in Nat,
         \/ current_chunk' = current_chunk
         \/ base.after = "chunk" /\ current_chunk <= current_chunk'
         \/ base.after = "head" /\ pc[0] = "convert" /\ u # 0
  PROVE  Placed(u)'
<1>1. UNCHANGED <<cgraph, base, abort>>
  OBVIOUS
<1>2. \A k : Reached(k)' <=> Reached(k)
  BY <1>1 DEF Reached, OnlySkips
<1>3. EndsHere' <=> EndsHere
  BY <1>1 DEF EndsHere, OnlySkips
<1>4. RowsDone(u) => RowsDone(u)'
  BY DEF RowsDone
<1>5. Ended(u) => Ended(u)'
  <2>. SUFFICES ASSUME Ended(u)
                PROVE  Ended(u)'
    OBVIOUS
  <2>1. Ending(node[u])'
    BY <1>1, <1>2 DEF Ended, Ending
  <2>2. ChunksGone(u)'
    <3>1. CASE base.after = "chunk"
      <4>1. /\ base.node \in 1 .. Len(cgraph)
            /\ cgraph[base.node].chunks \in Nat /\ current_chunk \in Nat
        BY <3>1, GraphIsSeq DEF IInv, DoneInv, TypeOK, WorkTypeOK
      <4>2. base.node = node[u]
        BY <3>1 DEF Ended, Ending, Reached
      <4>. QED  BY <3>1, <4>1, <4>2 DEF Ended, ChunksGone
    <3>2. CASE base.after # "chunk"
      BY <3>2 DEF Ended, Ending, ChunksGone
    <3>. QED  BY <3>1, <3>2
  <2>. QED  BY <1>4, <2>1, <2>2 DEF Ended
<1>6. AtHead(u) => AtHead(u)'
  BY <1>1, <1>5 DEF AtHead, OnlySkips
<1>7. AtBarrier(u) => AtBarrier(u)'
  <2>1. ret[u] = "chunk" /\ Reached(node[u]) /\ u = 0 /\ pc[u] # "convert" =>
           current_chunk' = current_chunk
    BY DEF Reached
  <2>. QED  BY <1>1, <1>2, <1>3, <1>5, <2>1 DEF AtBarrier, OutOf, Reached
<1>. QED
  BY <1>1, <1>2, <1>5, <1>6, <1>7 DEF Placed, Start

\* The invariant for a step of t that neither sets the abort flag nor passes a
\* barrier, from what the step does to t and to done.
LEMMA ComputePlaced ==
  ASSUME IInv, TypeOK', NEW t \in Threads, Compute(t), UNCHANGED <<abort, ec>>,
         done \subseteq done',
         \/ current_chunk' = current_chunk
         \/ base.after = "chunk" /\ current_chunk <= current_chunk'
         \/ base.after = "head" /\ pc[0] = "convert" /\ t = 0,
         Placed(t)', DoneInv', ChunkInv'
  PROVE  IInv'
<1>1. PlacedInv'
  <2>. SUFFICES ASSUME NEW u \in Active, ~Resting(u)'
                PROVE  Placed(u)'
    BY ComputeFacts DEF PlacedInv
  <2>1. CASE u = t
    BY <2>1
  <2>2. CASE u # t
    <3>1. u \in Threads /\ ~Resting(u) /\ Placed(u)
      BY <2>2, ComputeFacts DEF PlacedInv, IInv
    <3>2. current_chunk' \in Nat
      BY DEF TypeOK, WorkTypeOK
    <3>3. \/ current_chunk' = current_chunk
          \/ base.after = "chunk" /\ current_chunk <= current_chunk'
          \/ base.after = "head" /\ pc[0] = "convert" /\ u # 0
      BY <2>2
    <3>4. /\ UNCHANGED <<n_graph, base, cgraph>>
          /\ pc'[u] = pc[u] /\ ret'[u] = ret[u] /\ node'[u] = node[u] /\ nth'[u] = nth[u]
          /\ chunk'[u] = chunk[u] /\ (Lags(u)' <=> Lags(u))
      BY <2>2, <3>1, ComputeFacts
    <3>. QED  BY <3>1, <3>2, <3>3, <3>4, PlacedFrame
  <2>. QED  BY <2>1, <2>2
<1>2. AbortInv'
  BY ComputeFacts DEF AbortInv, Reached, OnlySkips, IInv
<1>. QED  BY <1>1, <1>2, ComputeKeeps DEF IInv

LEMMA Numbers ==
  ASSUME IInv, NEW t \in Threads
  PROVE  /\ node[t] \in Nat /\ chunk[t] \in Nat /\ nth[t] \in Nat /\ t \in Nat
         /\ base.node \in Nat /\ current_chunk \in Nat /\ abort \in Nat
         /\ base = [node |-> base.node, after |-> base.after]
<1>1. BarrierTypeOK /\ GraphTypeOK /\ WorkTypeOK
  BY DEF IInv, TypeOK
<1>2. base.node \in Nat /\ base = [node |-> base.node, after |-> base.after]
  BY <1>1 DEF BarrierTypeOK
<1>3. nth[t] \in Nat /\ t \in Nat
  BY <1>1, Bounds DEF WorkTypeOK, Threads
<1>4. node[t] \in Nat /\ chunk[t] \in Nat /\ current_chunk \in Nat
  BY <1>1 DEF WorkTypeOK
<1>5. abort \in Nat
  BY <1>1 DEF GraphTypeOK
<1>. QED  BY <1>2, <1>3, <1>4, <1>5

LEMMA BeginStep ==
  ASSUME IInv, TypeOK', NEW t \in Threads, BeginGraph(t)
  PROVE  IInv'
<1>. Compute(t)
  BY DEF Compute
<1>1. /\ UNCHANGED <<n_graph, base, cgraph, abort, ec, done, current_chunk, chunk>>
      /\ pc[t] = "begin" /\ pc'[t] = "head" /\ node'[t] = 0 /\ nth'[t] = n_graph.n
  BY DEF BeginGraph, Goto, poolVars, barrierVars, graphVars, IInv, TypeOK, WorkTypeOK
<1>2. base = Start
  BY <1>1, ComputeFacts DEF Placed
<1>3. Placed(t)'
  <2>1. AtHead(t)'
    BY <1>1, <1>2, GraphIsSeq DEF AtHead, OnlySkips, Start, IInv
  <2>. QED  BY <1>1, <2>1, ComputeFacts DEF Placed, InBarrier
<1>4. DoneInv'
  BY <1>1, <1>2, ComputeFacts DEF DoneInv, Reached, OnlySkips, Start, IInv
<1>5. ChunkInv'
  BY <1>1, <1>2 DEF ChunkInv, Start
<1>. QED  BY <1>1, <1>3, <1>4, <1>5, ComputePlaced

LEMMA NextNodeStep ==
  ASSUME IInv, TypeOK', NEW t \in Threads, NextNode(t)
  PROVE  IInv'
<1>. Compute(t)
  BY DEF Compute
<1>. DEFINE k == node[t] + 1
<1>1. /\ UNCHANGED <<n_graph, base, cgraph, abort, ec, done, current_chunk, chunk>>
      /\ pc[t] = "head" /\ UNCHANGED nth
  BY DEF NextNode, poolVars, barrierVars, graphVars, workVars
<1>2. AtHead(t) /\ nth[t] = n_graph.n
  BY <1>1, ComputeFacts DEF Placed
<1>3. Len(cgraph) \in Nat /\ (k <= Len(cgraph) => cgraph[k].kind \in {"skip", "rows", "mul_mat"})
  BY GraphIsSeq, Numbers, SMTT(30) DEF IInv
<1>4. Placed(t)'
  <2>1. CASE k <= Len(cgraph) /\ abort # k
    <3>1. /\ node'[t] = k
          /\ pc'[t] = CASE cgraph[k].kind = "skip"    -> "head"
                        [] cgraph[k].kind = "rows"    -> "rows"
                        [] cgraph[k].kind = "mul_mat" -> "convert"
      BY <2>1 DEF NextNode, Goto, IInv, TypeOK, WorkTypeOK
    <3>2. /\ base.after = "head"
          /\ base.node <= node[t]
          /\ OnlySkips(base.node, node[t])
          /\ abort # base.node + 1
      BY <1>2, <1>3, <2>1, Numbers DEF AtHead
    <3>3. CASE cgraph[k].kind = "skip"
      <4>1. OnlySkips(base.node, k)
        BY <3>2, <3>3, Numbers DEF OnlySkips
      <4>2. AtHead(t)'
        BY <1>1, <1>3, <2>1, <3>1, <3>2, <4>1, Numbers DEF AtHead, OnlySkips
      <4>. QED  BY <1>1, <1>2, <3>1, <3>3, <4>2, ComputeFacts DEF Placed, InBarrier
    <3>4. CASE cgraph[k].kind # "skip"
      <4>1. Reached(k)
        BY <2>1, <3>2, <3>4, Numbers DEF Reached
      <4>2. Reached(node[t])'
        BY <1>1, <3>1, <4>1 DEF Reached, OnlySkips
      <4>3. pc'[t] \in {"rows", "convert"}
            /\ (pc'[t] = "rows" <=> cgraph[k].kind = "rows")
        BY <1>3, <2>1, <3>1, <3>4
      <4>. QED  BY <1>1, <1>2, <1>3, <2>1, <3>1, <3>4, <4>2, <4>3, ComputeFacts DEF Placed, InBarrier
    <3>. QED  BY <3>3, <3>4
  <2>2. CASE ~(k <= Len(cgraph) /\ abort # k)
    <3>1. node'[t] = node[t] /\ pc'[t] = "barrier" /\ ret'[t] = OutOf(t)
      BY <2>2 DEF NextNode, Goto, GotoBarrier, OutOf, IInv, TypeOK, BarrierTypeOK
    <3>2. EndsHere \/ (node[t] = Len(cgraph) /\ Ended(t))
      <4>. SUFFICES ASSUME ~(node[t] = Len(cgraph) /\ Ended(t))
                    PROVE  EndsHere
        OBVIOUS
      <4>1. /\ base.after = "head"
            /\ base.node <= node[t] /\ node[t] <= Len(cgraph)
            /\ OnlySkips(base.node, node[t])
            /\ abort = base.node + 1 => node[t] = base.node
        BY <1>2 DEF AtHead
      <4>2. CASE k > Len(cgraph)
        BY <1>3, <4>1, <4>2, Numbers DEF EndsHere
      <4>3. CASE abort = k
        <5>1. abort \in {0, base.node + 1} \/ Reached(abort - 1)
          BY <4>1 DEF IInv, AbortInv
        <5>2. ~Reached(node[t])
          BY <4>1, Numbers DEF Reached, OnlySkips
        <5>3. abort # 0 /\ abort - 1 = node[t]
          BY <4>3, Numbers
        <5>. QED  BY <4>1, <5>1, <5>2, <5>3 DEF EndsHere
      <4>. QED  BY <1>3, <2>2, <4>2, <4>3, Numbers
    <3>3. (EndsHere \/ (node[t] = Len(cgraph) /\ Ended(t)))'
      BY <1>1, <3>1, <3>2
      DEF EndsHere, OnlySkips, Ended, Ending, Reached, RowsDone, ChunksGone
    <3>4. AtBarrier(t)'
      BY <3>1, <3>3 DEF AtBarrier, OutOf
    <3>. QED  BY <1>1, <1>2, <3>1, <3>4, ComputeFacts DEF Placed
  <2>. QED  BY <2>1, <2>2
<1>5. DoneInv'
  BY <1>1, ComputeFacts DEF DoneInv, Reached, OnlySkips, IInv
<1>6. ChunkInv'
  <2>1. \A u \in Active : /\ chunk'[u] = chunk[u]
                          /\ \A c : Holds(u, c)' <=> Holds(u, c)
    <3>1. pc'[t] # "chunk"
      BY <1>3, Numbers DEF NextNode, Goto, GotoBarrier, IInv, TypeOK
    <3>. QED  BY <1>1, <3>1, ComputeFacts DEF Holds
  <2>. QED  BY <1>1, <2>1, ComputeFacts DEF ChunkInv, IInv
<1>. QED  BY <1>1, <1>4, <1>5, <1>6, ComputePlaced

\* The node at which t works: where it comes from is known from base.
LEMMA AtWork ==
  ASSUME IInv, NEW t \in Threads, ~Resting(t), pc[t] \in AtNode \cup {"abort?"}
  PROVE  /\ node[t] \in 1 .. Len(cgraph) /\ Len(cgraph) \in Nat
         /\ base.node <= node[t]
         /\ Reached(node[t]) \/ (base.after = "chunk" /\ base.node = node[t])
         /\ cgraph[node[t]].kind \in {"rows", "mul_mat"}
         /\ cgraph[node[t]].chunks \in Nat \ {0}
         /\ nth[t] = n_graph.n
<1>1. pc[t] \in Computing
  BY DEF Computing, AtNode
<1>2. Placed(t)
  BY <1>1, ThreadActive
<1>3. Reached(node[t]) \/ (base.after = "chunk" /\ base.node = node[t])
  BY <1>2, Numbers DEF Placed, AtNode, Ended, Ending
<1>4. node[t] \in 1 .. Len(cgraph) /\ Len(cgraph) \in Nat /\ base.node <= node[t]
  BY <1>3, GraphIsSeq, Numbers DEF IInv, DoneInv, Reached
<1>5. cgraph[node[t]].kind \in {"rows", "mul_mat"} /\ cgraph[node[t]].chunks \in Nat \ {0}
  BY <1>3, <1>4, GraphIsSeq DEF IInv, DoneInv, Reached
<1>6. nth[t] = n_graph.n
  BY <1>2 DEF Placed, AtNode
<1>. QED  BY <1>3, <1>4, <1>5, <1>6

LEMMA RowsStep ==
  ASSUME IInv, TypeOK', NEW t \in Threads, ComputeRows(t)
  PROVE  IInv'
<1>. Compute(t)
  BY DEF Compute
<1>1. /\ UNCHANGED <<n_graph, base, cgraph, abort, ec, current_chunk, chunk, nth, node, ret>>
      /\ pc[t] = "rows" /\ pc'[t] = "abort?"
      /\ done' = done \cup {<<node[t], "rows", t>>}
  BY DEF ComputeRows, Goto, poolVars, barrierVars, graphVars, IInv, TypeOK
<1>2. Reached(node[t]) /\ cgraph[node[t]].kind = "rows"
  BY <1>1, ComputeFacts DEF Placed
<1>3. node[t] \in 1 .. Len(cgraph) /\ t \in 0 .. n_graph.n - 1 /\ nth[t] = n_graph.n
  BY <1>1, AtWork, ComputeFacts DEF AtNode, Active
<1>4. base.after = "head" /\ base.node < node[t]
  BY <1>2 DEF Reached
<1>5. Placed(t)'
  <2>1. Ended(t)'
    BY <1>1, <1>2 DEF Ended, Ending, RowsDone, ChunksGone, Reached, OnlySkips
  <2>. QED  BY <1>1, <1>3, <2>1, ComputeFacts DEF Placed, InBarrier
<1>6. DoneInv'
  <2>1. <<node[t], "rows", t>> \in Parts(cgraph, node[t], n_graph.n)
    BY <1>2, <1>3 DEF Parts
  <2>2. \A p \in done' : /\ 1 <= p[1] /\ p[1] <= Len(cgraph)
                         /\ p \in Parts(cgraph, p[1], n_graph.n)
                         /\ p[1] <= base.node \/ Reached(p[1])
                         /\ p[2] = "chunk" => p[1] <= base.node
    BY <1>1, <1>2, <1>3, <1>4, <2>1 DEF IInv, DoneInv
  <2>3. \A j : Reached(j)' <=> Reached(j)
    BY <1>1 DEF Reached, OnlySkips
  <2>. QED  BY <1>1, <1>4, <2>2, <2>3, ComputeFacts DEF DoneInv, IInv
<1>7. ChunkInv'
  BY <1>1, <1>4 DEF ChunkInv
<1>. QED  BY <1>1, <1>5, <1>6, <1>7, ComputePlaced

LEMMA ConvertStep ==
  ASSUME IInv, TypeOK', NEW t \in Threads, ConvertSrc1(t)
  PROVE  IInv'
<1>. Compute(t)
  BY DEF Compute
<1>1. /\ UNCHANGED <<n_graph, base, cgraph, abort, ec, nth, node>>
      /\ pc[t] = "convert" /\ pc'[t] = "barrier" /\ ret'[t] = "chunk" /\ chunk'[t] = t
      /\ done' = done \cup {<<node[t], "src1", t>>}
      /\ current_chunk' = IF t = 0 THEN nth[t] ELSE current_chunk
  BY DEF ConvertSrc1, Goto, GotoBarrier, poolVars, graphVars, IInv, TypeOK, BarrierTypeOK,
         WorkTypeOK
<1>2. Reached(node[t]) /\ cgraph[node[t]].kind = "mul_mat"
  BY <1>1, ComputeFacts DEF Placed
<1>3. node[t] \in 1 .. Len(cgraph) /\ t \in 0 .. n_graph.n - 1 /\ nth[t] = n_graph.n
  BY <1>1, AtWork, ComputeFacts DEF AtNode, Active
<1>4. base.after = "head" /\ base.node < node[t]
  BY <1>2 DEF Reached
<1>5. Placed(t)'
  <2>1. Reached(node[t])' /\ cgraph'[node'[t]].kind = "mul_mat"
    BY <1>1, <1>2 DEF Reached, OnlySkips
  <2>2. AtBarrier(t)'
    BY <1>1, <1>3, <2>1 DEF AtBarrier
  <2>. QED  BY <1>1, <1>3, <2>2, ComputeFacts DEF Placed
<1>6. DoneInv'
  <2>1. <<node[t], "src1", t>> \in Parts(cgraph, node[t], n_graph.n)
    BY <1>2, <1>3 DEF Parts
  <2>2. \A p \in done' : /\ 1 <= p[1] /\ p[1] <= Len(cgraph)
                         /\ p \in Parts(cgraph, p[1], n_graph.n)
                         /\ p[1] <= base.node \/ Reached(p[1])
                         /\ p[2] = "chunk" => p[1] <= base.node
    BY <1>1, <1>2, <1>3, <1>4, <2>1 DEF IInv, DoneInv
  <2>3. \A j : Reached(j)' <=> Reached(j)
    BY <1>1 DEF Reached, OnlySkips
  <2>. QED  BY <1>1, <1>4, <2>2, <2>3, ComputeFacts DEF DoneInv, IInv
<1>7. ChunkInv'
  BY <1>1, <1>4 DEF ChunkInv
<1>. QED  BY <1>1, <1>4, <1>5, <1>6, <1>7, ComputePlaced

LEMMA ComputeChunkStep ==
  ASSUME IInv, TypeOK', NEW t \in Threads, ComputeChunk(t)
  PROVE  IInv'
<1>. Compute(t)
  BY DEF Compute
<1>. DEFINE n == cgraph[node[t]].chunks
            part == <<node[t], "chunk", chunk[t]>>
<1>1. /\ UNCHANGED <<n_graph, base, cgraph, abort, ec, current_chunk, chunk, nth, node, ret>>
      /\ pc[t] = "chunk"
      /\ pc'[t] = IF chunk[t] < n /\ nth[t] < n THEN "fetch" ELSE "abort?"
      /\ done' = IF chunk[t] < n THEN done \cup {part} ELSE done
  BY DEF ComputeChunk, Goto, poolVars, barrierVars, graphVars, IInv, TypeOK
<1>2. base = [node |-> node[t], after |-> "chunk"] /\ cgraph[node[t]].kind = "mul_mat"
  BY <1>1, ComputeFacts DEF Placed, IInv, DoneInv
<1>3. /\ node[t] \in 1 .. Len(cgraph) /\ n \in Nat /\ nth[t] = n_graph.n
      /\ chunk[t] \in Nat /\ current_chunk \in Nat /\ n_graph.n \in Nat
  BY <1>1, AtWork, ComputeFacts, Numbers DEF AtNode
<1>4. base.after = "chunk" /\ base.node = node[t]
  BY <1>2
<1>5. Holds(t, chunk[t]) /\ ~Holds(t, chunk[t])'
  BY <1>1, ComputeFacts DEF Holds
<1>6. n_graph.n <= current_chunk /\ chunk[t] < current_chunk
  BY <1>4, <1>5, ComputeFacts DEF IInv, ChunkInv
<1>7. Placed(t)'
  <2>1. CASE chunk[t] < n /\ nth[t] < n
    BY <1>1, <1>2, <1>3, <2>1, ComputeFacts DEF Placed, InBarrier
  <2>2. CASE ~(chunk[t] < n /\ nth[t] < n)
    <3>1. n <= current_chunk
      BY <1>3, <1>6, <2>2
    <3>2. Ended(t)'
      BY <1>1, <1>2, <1>4, <3>1 DEF Ended, Ending, RowsDone, ChunksGone
    <3>. QED  BY <1>1, <1>3, <2>2, <3>2, ComputeFacts DEF Placed, InBarrier
  <2>. QED  BY <2>1, <2>2
<1>8. DoneInv'
  <2>1. chunk[t] < n => part \in Parts(cgraph, node[t], n_graph.n)
    BY <1>2, <1>3 DEF Parts
  <2>2. \A p \in done' : /\ 1 <= p[1] /\ p[1] <= Len(cgraph)
                         /\ p \in Parts(cgraph, p[1], n_graph.n)
                         /\ p[1] <= base.node \/ Reached(p[1])
                         /\ p[2] = "chunk" => p[1] <= base.node
    BY <1>1, <1>2, <1>3, <1>4, <2>1, SMTT(30) DEF IInv, DoneInv
  <2>3. \A j : Reached(j)' <=> Reached(j)
    BY <1>1 DEF Reached, OnlySkips
  <2>. QED  BY <1>1, <1>4, <2>2, <2>3, ComputeFacts DEF DoneInv, IInv
<1>9. ChunkInv'
  <2>. SUFFICES /\ \A u \in Active : Holds(u, chunk[u])' =>
                      /\ chunk[u] < current_chunk
                      /\ <<base.node, "chunk", chunk[u]>> \notin done'
                /\ \A p \in done' : p[1] = base.node /\ p[2] = "chunk" => p[3] < current_chunk
                /\ \A u, v \in Active : u # v /\ Holds(u, chunk[u])' /\ Holds(v, chunk[v])'
                      => chunk[u] # chunk[v]
                /\ \A c \in 0 .. cgraph[base.node].chunks - 1 : c < current_chunk =>
                      \/ <<base.node, "chunk", c>> \in done'
                      \/ \E u \in Active : Holds(u, c)'
    BY <1>1, <1>6, ComputeFacts DEF ChunkInv
  <2>1. \A u \in Active : \A c : u # t => (Holds(u, c)' <=> Holds(u, c))
    BY ComputeFacts DEF Holds
  <2>2. \A c : ~Holds(t, c)'
    BY <1>1, ComputeFacts DEF Holds
  <2>3. \A u \in Active : Holds(u, chunk[u])' => u # t /\ Holds(u, chunk[u])
    BY <1>1, <2>1, <2>2
  <2>4. \A u \in Active : Holds(u, chunk[u])' => chunk[u] # chunk[t]
    BY <1>4, <1>5, <2>3, ComputeFacts DEF IInv, ChunkInv
  <2>5. \A u \in Active : Holds(u, chunk[u])' =>
            /\ chunk[u] < current_chunk
            /\ <<base.node, "chunk", chunk[u]>> \notin done'
    BY <1>1, <1>4, <2>3, <2>4, ComputeFacts DEF IInv, ChunkInv
  <2>6. \A p \in done' : p[1] = base.node /\ p[2] = "chunk" => p[3] < current_chunk
    BY <1>1, <1>4, <1>6 DEF IInv, ChunkInv
  <2>7. \A c \in 0 .. cgraph[base.node].chunks - 1 : c < current_chunk =>
            \/ <<base.node, "chunk", c>> \in done'
            \/ \E u \in Active : Holds(u, c)'
    <3>. SUFFICES ASSUME NEW c \in 0 .. cgraph[base.node].chunks - 1, c < current_chunk,
                         <<base.node, "chunk", c>> \notin done'
                  PROVE  \E u \in Active : Holds(u, c)'
      OBVIOUS
    <3>1. <<base.node, "chunk", c>> \notin done
      BY <1>1
    <3>2. PICK u \in Active : Holds(u, c)
      BY <1>4, <3>1 DEF IInv, ChunkInv
    <3>3. u # t
      <4>. SUFFICES ASSUME u = t PROVE FALSE
        OBVIOUS
      <4>1. c = chunk[t] /\ c < n
        BY <1>3, <1>4, <3>2 DEF Holds
      <4>. QED  BY <1>1, <1>4, <4>1
    <3>. QED  BY <2>1, <3>2, <3>3
  <2>8. \A u, v \in Active : u # v /\ Holds(u, chunk[u])' /\ Holds(v, chunk[v])'
            => chunk[u] # chunk[v]
    BY <1>4, <2>3 DEF IInv, ChunkInv
  <2>. QED  BY <2>5, <2>6, <2>7, <2>8
<1>. QED  BY <1>1, <1>7, <1>8, <1>9, ComputePlaced

LEMMA FetchStep ==
  ASSUME IInv, TypeOK', NEW t \in Threads, FetchChunk(t)
  PROVE  IInv'
<1>. Compute(t)
  BY DEF Compute
<1>1. /\ UNCHANGED <<n_graph, base, cgraph, abort, ec, nth, node, ret, done>>
      /\ pc[t] = "fetch" /\ pc'[t] = "chunk"
      /\ chunk'[t] = current_chunk /\ current_chunk' = current_chunk + 1
  BY DEF FetchChunk, Goto, poolVars, barrierVars, graphVars, IInv, TypeOK, WorkTypeOK
<1>2. base = [node |-> node[t], after |-> "chunk"]
  BY <1>1, ComputeFacts DEF Placed
<1>3. /\ nth[t] = n_graph.n /\ current_chunk \in Nat /\ n_graph.n \in Nat
      /\ \A u \in Active : chunk[u] \in Nat
      /\ \A p \in done : p[3] \in Nat
      /\ cgraph[base.node].chunks \in Nat
  <2>1. \A p \in done : p[3] \in Nat
    BY DEF IInv, TypeOK, WorkTypeOK
  <2>2. cgraph[base.node].chunks \in Nat
    BY <1>1, <1>2, AtWork, ComputeFacts DEF AtNode
  <2>. QED  BY <1>1, <2>1, <2>2, AtWork, ComputeFacts, Numbers DEF AtNode
<1>4. base.after = "chunk" /\ base.node = node[t]
  BY <1>2
<1>5. Placed(t)'
  BY <1>1, <1>2, <1>3, ComputeFacts DEF Placed, InBarrier
<1>6. DoneInv'
  BY <1>1, ComputeFacts DEF DoneInv, Reached, OnlySkips, IInv
<1>7. ChunkInv'
  <2>1. \A u \in Active : \A c : u # t => (Holds(u, c)' <=> Holds(u, c))
    BY ComputeFacts DEF Holds
  <2>2. \A c : ~Holds(t, c) /\ (Holds(t, c)' => c = current_chunk)
    BY <1>1, ComputeFacts DEF Holds
  <2>3. \A c : c = current_chunk => Holds(t, c)'
    BY <1>1, ComputeFacts DEF Holds
  <2>4. \A u \in Active : u # t => chunk'[u] = chunk[u]
    BY ComputeFacts
  <2>5. \A u \in Active : u # t /\ Holds(u, chunk[u]) =>
             chunk[u] < current_chunk /\ <<base.node, "chunk", chunk[u]>> \notin done
    BY <1>4 DEF IInv, ChunkInv
  <2>11. \A u \in Active : u # t => (Holds(u, chunk[u])' <=> Holds(u, chunk[u]))
    BY ComputeFacts DEF Holds
  <2>6. <<base.node, "chunk", current_chunk>> \notin done
    <3>. SUFFICES ASSUME <<base.node, "chunk", current_chunk>> \in done
                  PROVE  FALSE
      OBVIOUS
    <3>. QED  BY <1>3, <1>4 DEF IInv, ChunkInv
  <2>7. /\ n_graph'.n <= current_chunk'
        /\ \A u \in Active' : Holds(u, chunk[u])' =>
              chunk'[u] < current_chunk' /\ <<base'.node, "chunk", chunk'[u]>> \notin done'
    <3>1. n_graph.n <= current_chunk
      BY <1>4 DEF IInv, ChunkInv
    <3>2. ASSUME NEW u \in Active, Holds(u, chunk[u])'
          PROVE  chunk'[u] < current_chunk' /\ <<base'.node, "chunk", chunk'[u]>> \notin done'
      <4>1. CASE u = t
        BY <1>1, <1>3, <2>6, <4>1
      <4>2. CASE u # t
        BY <1>1, <1>3, <2>1, <2>4, <2>5, <3>2, <4>2
      <4>. QED  BY <4>1, <4>2
    <3>. QED  BY <1>1, <1>3, <3>1, <3>2, ComputeFacts
  <2>8. \A p \in done' : p[1] = base'.node /\ p[2] = "chunk" => p[3] < current_chunk'
    BY <1>1, <1>3, <1>4 DEF IInv, ChunkInv
  <2>9. \A u, v \in Active' : u # v /\ Holds(u, chunk[u])' /\ Holds(v, chunk[v])'
            => chunk'[u] # chunk'[v]
    <3>1. ASSUME NEW u \in Active, u # t, Holds(u, chunk[u])'
          PROVE  chunk'[u] # current_chunk
      <4>1. Holds(u, chunk[u]) /\ chunk'[u] = chunk[u]
        BY <2>4, <2>11, <3>1
      <4>2. chunk[u] < current_chunk
        BY <2>5, <3>1, <4>1
      <4>. QED  BY <1>3, <4>1, <4>2
    <3>2. \A u, v \in Active : u # t /\ v # t /\ u # v /\ Holds(u, chunk[u])' /\ Holds(v, chunk[v])'
              => chunk'[u] # chunk'[v]
      BY <1>4, <2>4, <2>11 DEF IInv, ChunkInv
    <3>. QED  BY <1>1, <3>1, <3>2, ComputeFacts
  <2>10. \A c \in 0 .. cgraph'[base'.node].chunks - 1 : c < current_chunk' =>
            \/ <<base'.node, "chunk", c>> \in done'
            \/ \E u \in Active' : Holds(u, c)'
    <3>. SUFFICES ASSUME NEW c \in 0 .. cgraph[base.node].chunks - 1, c < current_chunk + 1,
                         <<base.node, "chunk", c>> \notin done
                  PROVE  \E u \in Active : Holds(u, c)'
      BY <1>1, ComputeFacts
    <3>1. CASE c = current_chunk
      BY <2>3, <3>1, ComputeFacts
    <3>2. CASE c # current_chunk
      <4>1. c < current_chunk
        BY <1>3, <3>2
      <4>2. PICK u \in Active : Holds(u, c)
        BY <1>4, <4>1 DEF IInv, ChunkInv
      <4>. QED  BY <2>1, <2>2, <4>2
    <3>. QED  BY <3>1, <3>2
  <2>. QED  BY <2>7, <2>8, <2>9, <2>10 DEF ChunkInv
<1>. QED  BY <1>1, <1>3, <1>4, <1>5, <1>6, <1>7, ComputePlaced

\* An abort takes effect at the node after the one that everybody works at:
\* it moves no barrier that a thread is on its way to.
LEMMA EndNodeStep ==
  ASSUME IInv, TypeOK', NEW t \in Threads, EndNode(t)
  PROVE  IInv'
<1>. Compute(t)
  BY DEF Compute
<1>1. /\ UNCHANGED <<n_graph, base, cgraph, current_chunk, chunk, nth, node, done>>
      /\ pc[t] = "abort?"
      /\ UNCHANGED <<abort, ec>> \/ (t = 0 /\ abort' = node[t] + 1 /\ ec' = "aborted")
      /\ node[t] < Len(cgraph) => pc'[t] = "barrier" /\ ret'[t] = "head"
      /\ ~(node[t] < Len(cgraph)) => pc'[t] = "head"
  <2>1. node[t] < Len(cgraph) => pc'[t] = "barrier" /\ ret'[t] = "head"
    BY DEF EndNode, Goto, GotoBarrier, IInv, TypeOK, BarrierTypeOK
  <2>2. ~(node[t] < Len(cgraph)) => pc'[t] = "head"
    BY DEF EndNode, Goto, IInv, TypeOK
  <2>. QED  BY <2>1, <2>2 DEF EndNode, poolVars, workVars
<1>2. Ended(t) /\ Ending(node[t])
  BY <1>1, ComputeFacts DEF Placed, Ended
<1>3. /\ node[t] \in 1 .. Len(cgraph) /\ Len(cgraph) \in Nat /\ nth[t] = n_graph.n
      /\ base.node <= node[t] /\ base.node \in Nat
  BY <1>1, AtWork, ComputeFacts, Numbers DEF AtNode
<1>4. \A k : Reached(k)' <=> Reached(k)
  <2>1. CASE UNCHANGED abort
    BY <1>1, <2>1 DEF Reached, OnlySkips
  <2>2. CASE abort' = node[t] + 1
    <3>1. CASE base.after = "head"
      <4>1. Reached(node[t])
        BY <1>2, <3>1 DEF Ending
      <4>2. abort # base.node + 1 /\ abort' # base.node + 1
        BY <1>3, <2>2, <4>1 DEF Reached
      <4>. QED  BY <1>1, <4>2 DEF Reached, OnlySkips
    <3>2. CASE base.after # "head"
      BY <1>1, <3>2 DEF Reached
    <3>. QED  BY <3>1, <3>2
  <2>. QED  BY <1>1, <2>1, <2>2
<1>5. EndsHere' <=> EndsHere
  <2>1. CASE UNCHANGED abort
    BY <1>1, <2>1 DEF EndsHere, OnlySkips
  <2>2. CASE abort' = node[t] + 1
    <3>1. CASE base.after = "head"
      <4>1. Reached(node[t])
        BY <1>2, <3>1 DEF Ending
      <4>2. abort # base.node + 1 /\ abort' # base.node + 1
        BY <1>3, <2>2, <4>1 DEF Reached
      <4>. QED  BY <1>1, <4>2 DEF EndsHere, OnlySkips
    <3>2. CASE base.after # "head"
      BY <1>1, <3>2 DEF EndsHere
    <3>. QED  BY <3>1, <3>2
  <2>. QED  BY <1>1, <2>1, <2>2
<1>6. abort' # base.node + 1 \/ UNCHANGED abort \/ base.after = "chunk"
  <2>1. Reached(node[t]) => base.node < node[t]
    BY DEF Reached
  <2>. QED  BY <1>1, <1>2, <1>3, <2>1 DEF Ending
<1>7. \A u \in Threads : node'[u] = node[u] /\ (Ended(u) => Ended(u)')
  BY <1>1, <1>4 DEF Ended, Ending, RowsDone, ChunksGone
<1>8. Placed(t)'
  <2>1. CASE node[t] < Len(cgraph)
    <3>1. AtBarrier(t)'
      BY <1>1, <1>2, <1>7, <2>1 DEF AtBarrier
    <3>. QED  BY <1>1, <1>3, <2>1, <3>1, ComputeFacts DEF Placed
  <2>2. CASE ~(node[t] < Len(cgraph))
    <3>1. node[t] = Len(cgraph)
      BY <1>3, <2>2
    <3>2. AtHead(t)'
      BY <1>1, <1>2, <1>7, <3>1 DEF AtHead
    <3>. QED  BY <1>1, <1>3, <2>2, <3>2, ComputeFacts DEF Placed, InBarrier
  <2>. QED  BY <2>1, <2>2
<1>9. PlacedInv'
  <2>. SUFFICES ASSUME NEW u \in Active, ~Resting(u)'
                PROVE  Placed(u)'
    BY ComputeFacts DEF PlacedInv
  <2>1. CASE u = t
    BY <1>8, <2>1
  <2>2. CASE u # t
    <3>1. /\ u \in Threads /\ ~Resting(u) /\ Placed(u)
          /\ pc'[u] = pc[u] /\ ret'[u] = ret[u] /\ (Lags(u)' <=> Lags(u))
      BY <2>2, ComputeFacts DEF PlacedInv, IInv
    <3>2. AtHead(u) => AtHead(u)'
      BY <1>1, <1>6, <1>7, <3>1 DEF AtHead, OnlySkips
    <3>3. AtBarrier(u) => AtBarrier(u)'
      BY <1>1, <1>4, <1>5, <1>7, <3>1 DEF AtBarrier, OutOf
    <3>. QED  BY <1>1, <1>4, <1>7, <3>1, <3>2, <3>3 DEF Placed, Start
  <2>. QED  BY <2>1, <2>2
<1>10. AbortInv'
  <2>1. CASE UNCHANGED <<abort, ec>>
    BY <1>1, <1>4, <2>1 DEF AbortInv, IInv
  <2>2. CASE t = 0 /\ abort' = node[t] + 1 /\ ec' = "aborted"
    <3>1. abort' > 1 /\ abort' - 1 = node[t]
      BY <1>3, <2>2
    <3>2. abort' = base.node + 1 \/ Reached(node[t])
      BY <1>2, <2>2 DEF Ending
    <3>. QED  BY <1>1, <1>4, <2>2, <3>1, <3>2 DEF AbortInv
  <2>. QED  BY <1>1, <2>1, <2>2
<1>11. DoneInv'
  BY <1>1, <1>4, ComputeFacts DEF DoneInv, IInv
<1>12. ChunkInv'
  <2>1. \A u \in Active : /\ chunk'[u] = chunk[u]
                          /\ \A c : Holds(u, c)' <=> Holds(u, c)
    BY <1>1, ComputeFacts DEF Holds
  <2>. QED  BY <1>1, <2>1, ComputeFacts DEF ChunkInv, IInv
<1>. QED  BY <1>9, <1>10, <1>11, <1>12, ComputeKeeps DEF IInv

-----------------------------------------------------------------------------
(* Steps in the barrier.                                                   *)

\* A step of t from one place in the barrier to another, that lets nobody go.
LEMMA InsideStep ==
  ASSUME IInv, TypeOK', NEW t \in Threads,
         pc[t] \in InBarrier, pc'[t] \in InBarrier, ~Lags(t), ~Lags(t)',
         UNCHANGED <<poolVars, graphVars, workVars, n_barrier_passed, ret, base>>,
         \A u \in Threads : u # t => pc'[u] = pc[u] /\ bar_passed'[u] = bar_passed[u],
         BarrierInv'
  PROVE  IInv'
<1>1. UNCHANGED <<n_graph, last_graph, pending, n_barrier_passed, ret, base, abort, ec, cgraph,
                  asked, current_chunk, nth, node, chunk, done>>
  BY DEF poolVars, graphVars, workVars
<1>2. ~Resting(t) /\ ~Resting(t)' /\ pc[t] \in Computing /\ pc'[t] \in Computing
  BY DEF Resting, InBarrier, Calling, Waiting, Computing
<1>3. t \in Active /\ Placed(t) /\ base.after # "out" /\ (t # 0 => t \in Workers)
  BY <1>2, ThreadActive
<1>4. \A u \in Threads : (Lags(u)' <=> Lags(u)) /\ (Resting(u)' <=> Resting(u))
  <2>1. \A u \in Threads : u # t => (Lags(u)' <=> Lags(u)) /\ (Resting(u)' <=> Resting(u))
    BY <1>1, RestFrame
  <2>. QED  BY <1>2, <2>1
<1>5. Active' = Active /\ Active \subseteq Threads /\ 0 \in Threads /\ Workers \subseteq Threads
  BY <1>1, ActiveThreads, Bounds DEF Active, IInv
<1>6. CallerInv'
  <2>1. pc'[0] = pc[0] \/ (pc[0] \in InBarrier /\ pc'[0] \in InBarrier)
    BY <1>5
  <2>. QED  BY <1>1, <1>4, <1>5, <2>1 DEF CallerInv, IInv, InBarrier, Computing, Waiting
<1>7. WorkerInv'
  <2>. SUFFICES ASSUME NEW w \in Workers
                PROVE  /\ pc'[w] \notin Calling \cup {"kick", "freeing"}
                       /\ pending'[w] <=> pc'[w] = "work"
                       /\ w \notin Active => Resting(w)
                       /\ base.after = "out" => Resting(w)
                       /\ w \in Active /\ (base.after = "out" \/ ~Resting(w))
                             => last_graph[w] = n_graph
                       /\ w \in Active /\ base.after # "out" /\ Resting(w) => base = Start
    BY <1>1, <1>4, <1>5 DEF WorkerInv, Start
  <2>1. pc'[w] = pc[w] \/ (pc[w] \in InBarrier /\ pc'[w] \in InBarrier)
    BY <1>5
  <2>. QED  BY <1>1, <2>1 DEF WorkerInv, IInv, InBarrier, Calling
<1>8. PlacedInv'
  <2>. SUFFICES ASSUME NEW u \in Active, ~Resting(u)
                PROVE  Placed(u)'
    BY <1>4, <1>5 DEF PlacedInv
  <2>1. Placed(u) /\ u \in Threads
    BY <1>5 DEF PlacedInv, IInv
  <2>2. AtBarrier(u) => AtBarrier(u)'
    BY <1>1
    DEF AtBarrier, OutOf, Reached, OnlySkips, EndsHere, Ended, Ending, RowsDone, ChunksGone
  <2>3. AtHead(u)' <=> AtHead(u)
    BY <1>1 DEF AtHead, OnlySkips, Reached, Ended, Ending, RowsDone, ChunksGone
  <2>4. Ended(u)' <=> Ended(u)
    BY <1>1 DEF Ended, Ending, Reached, OnlySkips, RowsDone, ChunksGone
  <2>5. Reached(node[u])' <=> Reached(node[u])
    BY <1>1 DEF Reached, OnlySkips
  <2>6. pc'[u] = pc[u] \/ (pc[u] \in InBarrier /\ pc'[u] \in InBarrier)
    BY <2>1
  <2>. QED  BY <1>1, <1>4, <2>1, <2>2, <2>3, <2>4, <2>5, <2>6 DEF Placed, Start, InBarrier
<1>9. AbortInv'
  BY <1>1 DEF AbortInv, Reached, OnlySkips, IInv
<1>10. DoneInv'
  <2>1. base'.after # "out"
    BY <1>1, <1>3
  <2>. QED  BY <1>1, <1>5, <2>1 DEF DoneInv, Reached, OnlySkips, IInv
<1>11. ChunkInv'
  <2>1. \A u \in Active : \A c : Holds(u, c)' <=> Holds(u, c)
    <3>1. pc[t] # "chunk" /\ pc'[t] # "chunk"
      BY DEF InBarrier
    <3>. QED  BY <1>1, <1>4, <1>5, <3>1 DEF Holds
  <2>. QED  BY <1>1, <1>5, <2>1 DEF ChunkInv, IInv
<1>. QED  BY <1>6, <1>7, <1>8, <1>9, <1>10, <1>11 DEF IInv

\* While t has not arrived nobody is the last to arrive.
LEMMA NobodyLast ==
  ASSUME IInv, NEW t \in Active, t \notin Arrived
  PROVE  /\ \A u \in Threads \ {t} : pc[u] \notin {"last", "release"}
         /\ pc[t] \notin {"last", "release"} => n_barrier = Cardinality(Arrived)
BY DEF IInv, BarrierInv

LEMMA EnterStep ==
  ASSUME IInv, TypeOK', NEW t \in Threads, EnterBarrier(t), n_graph.n # 1
  PROVE  IInv'
<1>1. /\ UNCHANGED <<poolVars, graphVars, workVars, n_barrier, n_barrier_passed, ret, base>>
      /\ \A u \in Threads : u # t => pc'[u] = pc[u] /\ bar_passed'[u] = bar_passed[u]
                                     /\ bar_n'[u] = bar_n[u]
      /\ pc[t] = "barrier" /\ pc'[t] = "arrive"
      /\ bar_passed'[t] = n_barrier_passed /\ bar_n'[t] = n_graph.n
  BY DEF EnterBarrier, Goto, IInv, TypeOK, BarrierTypeOK
<1>2. Active \subseteq Threads /\ UNCHANGED n_graph /\ Active' = Active
  BY <1>1, ActiveThreads DEF Active, IInv, poolVars
<1>3. Arrived' = Arrived
  BY <1>1, <1>2 DEF Arrived
<1>4. BarrierInv'
  <2>1. \A u \in Threads : u # t => (Lags(u)' <=> Lags(u))
    BY <1>1 DEF Lags
  <2>. QED  BY <1>1, <1>2, <1>3, <2>1 DEF BarrierInv, IInv
<1>. QED  BY <1>1, <1>4, InsideStep DEF InBarrier, Lags

LEMMA ArriveStep ==
  ASSUME IInv, TypeOK', NEW t \in Threads, ArriveAtBarrier(t)
  PROVE  IInv'
<1>1. /\ UNCHANGED <<poolVars, graphVars, workVars, n_barrier_passed, ret, base, bar_n, bar_passed>>
      /\ \A u \in Threads : u # t => pc'[u] = pc[u]
      /\ pc[t] = "arrive" /\ n_barrier' = n_barrier + 1
      /\ pc'[t] = IF n_barrier = bar_n[t] - 1 THEN "last" ELSE "spin"
  BY DEF ArriveAtBarrier, Goto, IInv, TypeOK
<1>2. /\ Active \subseteq Threads /\ IsFiniteSet(Active) /\ Cardinality(Active) = n_graph.n
      /\ UNCHANGED n_graph /\ Active' = Active
  BY <1>1, ActiveThreads DEF Active, IInv, poolVars
<1>3. t \in Active /\ t \notin Arrived /\ ~Lags(t)
  <2>1. ~Lags(t) /\ ~Resting(t) /\ pc[t] \in Computing
    BY <1>1 DEF Lags, Resting, Calling, Waiting, Computing, InBarrier
  <2>. QED  BY <1>1, <2>1, ThreadActive DEF Arrived
<1>4. bar_passed[t] = n_barrier_passed /\ bar_n[t] = n_graph.n /\ n_graph.n # 1
  BY <1>1 DEF IInv, BarrierInv
<1>5. n_barrier = Cardinality(Arrived) /\ \A u \in Threads \ {t} : pc[u] \notin {"last", "release"}
  BY <1>1, <1>3, NobodyLast
<1>6. IsFiniteSet(Arrived) /\ Arrived \subseteq Active \ {t}
  BY <1>2, <1>3, FS_Subset DEF Arrived
<1>7. \A u \in Threads : u # t => (Lags(u)' <=> Lags(u))
  BY <1>1 DEF Lags
<1>8. BarrierInv'
  <2>1. CASE n_barrier = bar_n[t] - 1
    <3>1. IsFiniteSet(Active \ {t}) /\ Cardinality(Active \ {t}) = n_graph.n - 1
      BY <1>2, <1>3, FS_RemoveElement
    <3>2. Arrived = Active \ {t}
      BY <1>4, <1>5, <1>6, <2>1, <3>1, FS_Subset
    <3>3. Arrived' = Arrived
      BY <1>1, <1>2, <2>1 DEF Arrived
    <3>. QED  BY <1>1, <1>2, <1>4, <1>5, <1>7, <2>1, <3>2, <3>3 DEF BarrierInv, IInv, Lags
  <2>2. CASE n_barrier # bar_n[t] - 1
    <3>1. Arrived' = Arrived \cup {t}
      BY <1>1, <1>2, <1>3, <1>4, <2>2 DEF Arrived
    <3>2. Cardinality(Arrived') = n_barrier'
      BY <1>1, <1>3, <1>5, <1>6, <3>1, FS_AddElement
    <3>3. n_barrier_passed \in Nat
      BY DEF IInv, TypeOK, BarrierTypeOK
    <3>. QED
      BY <1>1, <1>2, <1>4, <1>5, <1>7, <2>2, <3>2, <3>3 DEF BarrierInv, IInv, Lags
  <2>. QED  BY <2>1, <2>2
<1>. QED  BY <1>1, <1>3, <1>4, <1>8, InsideStep DEF InBarrier, Lags

LEMMA ResetStep ==
  ASSUME IInv, TypeOK', NEW t \in Threads, ResetBarrier(t)
  PROVE  IInv'
<1>1. /\ UNCHANGED <<poolVars, graphVars, workVars, n_barrier_passed, ret, base, bar_n, bar_passed>>
      /\ \A u \in Threads : u # t => pc'[u] = pc[u]
      /\ pc[t] = "last" /\ n_barrier' = 0 /\ pc'[t] = "release"
  BY DEF ResetBarrier, Goto, IInv, TypeOK
<1>2. Active' = Active /\ UNCHANGED n_graph /\ Active \subseteq Threads
  BY <1>1, ActiveThreads DEF Active, poolVars, IInv
<1>3. Arrived' = Arrived
  BY <1>1, <1>2 DEF Arrived
<1>4. BarrierInv'
  <2>1. \A u \in Threads : u # t => (Lags(u)' <=> Lags(u))
    BY <1>1 DEF Lags
  <2>. QED  BY <1>1, <1>2, <1>3, <2>1 DEF BarrierInv, IInv, Lags
<1>. QED  BY <1>1, <1>4, InsideStep DEF InBarrier, Lags

LEMMA LeaveStep ==
  ASSUME IInv, TypeOK', NEW t \in Threads, LeaveBarrier(t)
  PROVE  IInv'
<1>1. /\ UNCHANGED <<n_graph, last_graph, pending, n_barrier, n_barrier_passed, bar_n, bar_passed,
                     ret, base, abort, ec, cgraph, asked, current_chunk, nth, node, chunk, done>>
      /\ \A u \in Threads : u # t => pc'[u] = pc[u]
      /\ pc[t] = "spin" /\ Lags(t) /\ pc'[t] = ret[t]
  BY DEF LeaveBarrier, Goto, barrierVars, poolVars, graphVars, workVars, Lags, IInv, TypeOK
<1>2. Active' = Active /\ Active \subseteq Threads /\ Workers \subseteq Threads /\ 0 \in Threads
  BY <1>1, ActiveThreads, Bounds DEF Active, IInv
<1>3. ret[t] \in {"head", "chunk", "return", "top"} /\ ~Lags(t)'
  <2>1. ret[t] \in {"head", "chunk", "return", "top"}
    BY DEF IInv, TypeOK, BarrierTypeOK
  <2>. QED  BY <1>1, <2>1 DEF Lags
<1>4. Resting(t) <=> ret[t] = OutOf(t)
  BY <1>1 DEF Resting, Calling, Waiting
<1>5. ~Resting(t) => /\ t \in Active /\ Placed(t) /\ base.after # "out"
                     /\ base = [node |-> node[t], after |-> ret[t]]
                     /\ ret[t] \in {"head", "chunk"} /\ nth[t] = n_graph.n
  <2>. SUFFICES ASSUME ~Resting(t)
                PROVE  /\ t \in Active /\ Placed(t) /\ base.after # "out"
                       /\ base = [node |-> node[t], after |-> ret[t]]
                       /\ ret[t] \in {"head", "chunk"} /\ nth[t] = n_graph.n
    OBVIOUS
  <2>1. t \in Active /\ Placed(t) /\ base.after # "out"
    BY <1>1, ThreadActive DEF Computing, InBarrier
  <2>2. base = [node |-> node[t], after |-> ret[t]] /\ nth[t] = n_graph.n
    BY <1>1, <2>1 DEF Placed
  <2>3. base.after \in {"head", "chunk", "out"}
    BY DEF IInv, TypeOK, BarrierTypeOK
  <2>. QED  BY <2>1, <2>2, <2>3
<1>6. Resting(t)' <=> Resting(t)
  <2>1. CASE ret[t] = OutOf(t)
    BY <1>1, <1>4, <2>1 DEF Resting, OutOf, Calling, Waiting
  <2>2. CASE ret[t] # OutOf(t)
    <3>1. pc'[t] \in {"head", "chunk"}
      BY <1>1, <1>4, <1>5, <2>2
    <3>. QED  BY <1>3, <1>4, <2>2, <3>1 DEF Resting, Calling, Waiting
  <2>. QED  BY <2>1, <2>2
<1>7. \A u \in Threads : (u # t => (Lags(u)' <=> Lags(u))) /\ (Resting(u)' <=> Resting(u))
  <2>1. \A u \in Threads : u # t => (Lags(u)' <=> Lags(u)) /\ (Resting(u)' <=> Resting(u))
    BY <1>1, RestFrame
  <2>. QED  BY <1>6, <2>1
<1>8. /\ t = 0 => pc'[t] \in {"head", "chunk", "return"}
      /\ t # 0 => pc'[t] \in {"head", "chunk", "top"}
  BY <1>1, <1>4, <1>5 DEF OutOf
<1>9. CallerInv'
  BY <1>1, <1>2, <1>7, <1>8 DEF CallerInv, IInv, Computing, InBarrier, Waiting
<1>10. WorkerInv'
  <2>. SUFFICES ASSUME NEW w \in Workers
                PROVE  /\ pc'[w] \notin Calling \cup {"kick", "freeing"}
                       /\ pending'[w] <=> pc'[w] = "work"
                       /\ w \notin Active => Resting(w)
                       /\ base.after = "out" => Resting(w)
                       /\ w \in Active /\ (base.after = "out" \/ ~Resting(w))
                             => last_graph[w] = n_graph
                       /\ w \in Active /\ base.after # "out" /\ Resting(w) => base = Start
    BY <1>1, <1>2, <1>7 DEF WorkerInv, Start
  <2>1. w # 0
    BY DEF Workers
  <2>2. pc'[w] = pc[w] \/ (pc[w] = "spin" /\ pc'[w] \in {"head", "chunk", "top"})
    BY <1>1, <1>2, <1>8, <2>1
  <2>. QED  BY <1>1, <2>2 DEF WorkerInv, IInv, Calling
<1>11. PlacedInv'
  <2>. SUFFICES ASSUME NEW u \in Active, ~Resting(u)
                PROVE  Placed(u)'
    BY <1>2, <1>7 DEF PlacedInv
  <2>1. CASE u = t
    <3>1. base.node \in Nat /\ Len(cgraph) \in Nat /\ base.node <= Len(cgraph)
      BY <1>5, <2>1, Numbers, GraphIsSeq DEF IInv, DoneInv
    <3>2. ret[t] = "head" => AtHead(t)'
      BY <1>1, <1>5, <2>1, <3>1 DEF AtHead, OnlySkips
    <3>. QED  BY <1>1, <1>3, <1>5, <2>1, <3>2 DEF Placed, InBarrier
  <2>2. CASE u # t
    <3>1. Placed(u) /\ u \in Threads /\ (Lags(u)' <=> Lags(u)) /\ pc'[u] = pc[u]
      BY <1>1, <1>2, <1>7, <2>2 DEF PlacedInv, IInv
    <3>2. AtBarrier(u)' <=> AtBarrier(u)
      BY <1>1
      DEF AtBarrier, OutOf, Reached, OnlySkips, EndsHere, Ended, Ending, RowsDone, ChunksGone
    <3>3. AtHead(u)' <=> AtHead(u)
      BY <1>1 DEF AtHead, OnlySkips, Reached, Ended, Ending, RowsDone, ChunksGone
    <3>4. Ended(u)' <=> Ended(u)
      BY <1>1 DEF Ended, Ending, Reached, OnlySkips, RowsDone, ChunksGone
    <3>5. Reached(node[u])' <=> Reached(node[u])
      BY <1>1 DEF Reached, OnlySkips
    <3>. QED  BY <1>1, <3>1, <3>2, <3>3, <3>4, <3>5 DEF Placed, Start
  <2>. QED  BY <2>1, <2>2
<1>12. BarrierInv'
  <2>1. Arrived' = Arrived
    BY <1>1, <1>2, <1>3 DEF Arrived, Lags
  <2>2. pc'[t] \notin {"arrive", "last", "release", "spin"}
    BY <1>1, <1>3
  <2>3. \A u \in Threads : u # t => (Lags(u)' <=> Lags(u))
    BY <1>7
  <2>. QED  BY <1>1, <1>2, <2>1, <2>2, <2>3 DEF BarrierInv, IInv
<1>13. AbortInv'
  BY <1>1 DEF AbortInv, Reached, OnlySkips, IInv
<1>14. DoneInv'
  <2>1. pc'[0] \in Computing \cup {"return"} => pc[0] \in Computing \cup {"return"}
    BY <1>1, <1>2 DEF Computing, InBarrier
  <2>. QED  BY <1>1, <1>2, <2>1 DEF DoneInv, Reached, OnlySkips, IInv
<1>15. ChunkInv'
  <2>. SUFFICES ASSUME base.after = "chunk"
                PROVE  ChunkInv'
    BY <1>1 DEF ChunkInv
  <2>1. \A u \in Active : \A c : Holds(u, c)' <=> Holds(u, c)
    <3>1. \A c : Holds(t, c)' <=> Holds(t, c)
      BY <1>1, <1>3, <1>5, <1>6 DEF Holds
    <3>2. \A u \in Active : u # t => \A c : Holds(u, c)' <=> Holds(u, c)
      BY <1>1, <1>2, <1>7 DEF Holds
    <3>. QED  BY <3>1, <3>2
  <2>. QED  BY <1>1, <1>2, <2>1 DEF ChunkInv, IInv
<1>. QED  BY <1>9, <1>10, <1>11, <1>12, <1>13, <1>14, <1>15 DEF IInv

-----------------------------------------------------------------------------
(* The barrier lets all threads go.                                        *)

LEMMA ReachedOnce ==
  ASSUME IInv, NEW j \in Nat, NEW k \in Nat, Reached(j), Reached(k)
  PROVE  j = k
<1>1. base.node \in Nat
  BY Bounds, Numbers
<1>2. ~(j < k) /\ ~(k < j)
  BY <1>1 DEF Reached, OnlySkips
<1>. QED  BY <1>2

\* All threads of a barrier came to the same one.
LEMMA SameBarrier ==
  ASSUME IInv, NEW t \in Threads, NEW u \in Threads, AtBarrier(t), AtBarrier(u)
  PROVE  /\ ret[t] \in {"chunk", "head"} => ret[u] = ret[t] /\ node[u] = node[t]
         /\ ret[t] \notin {"chunk", "head"} => ret[u] = OutOf(u) /\ ret[t] = OutOf(t)
<1>1. node[t] \in Nat /\ node[u] \in Nat /\ Len(cgraph) \in Nat /\ base.node \in Nat
  BY Numbers, GraphIsSeq DEF IInv
<1>2. Reached(node[t]) /\ Reached(node[u]) => node[t] = node[u]
  BY <1>1, ReachedOnce
<1>3. \A k \in Nat : Reached(k) => base.after = "head" /\ ~EndsHere
  BY <1>1, GraphIsSeq DEF Reached, EndsHere, OnlySkips, IInv
<1>4. \A v \in {t, u} : Ended(v) =>
         \/ Reached(node[v]) /\ cgraph[node[v]].kind = "rows"
         \/ base.after = "chunk" /\ base.node = node[v]
  BY DEF Ended, Ending
<1>5. EndsHere => base.after = "head"
  BY DEF EndsHere
<1>6. \A v \in {t, u} :
         \/ ret[v] = "chunk" /\ Reached(node[v]) /\ cgraph[node[v]].kind = "mul_mat"
         \/ ret[v] = "head" /\ node[v] < Len(cgraph) /\ Ended(v)
         \/ ret[v] = OutOf(v) /\ ret[v] \notin {"chunk", "head"} /\ EndsHere
         \/ ret[v] = OutOf(v) /\ ret[v] \notin {"chunk", "head"} /\ node[v] = Len(cgraph)
              /\ Ended(v)
  BY DEF AtBarrier, OutOf
<1>7. Ended(t) /\ Ended(u) => node[t] = node[u]
  BY <1>1, <1>2, <1>3, <1>4
<1>8. /\ Reached(node[t]) /\ cgraph[node[t]].kind = "mul_mat" => ~Ended(u)
      /\ Reached(node[u]) /\ cgraph[node[u]].kind = "mul_mat" => ~Ended(t)
  BY <1>1, <1>2, <1>3, <1>4
<1>9. (Ended(t) => ~EndsHere) /\ (Ended(u) => ~EndsHere)
  BY <1>1, <1>3, <1>4, <1>5
<1>. QED
  BY <1>1, <1>2, <1>3, <1>6, <1>7, <1>8, <1>9

\* Thread t lets the others go: all of them have arrived.
Release(t) ==
    /\ pc[t] \in {"barrier", "release"} /\ pc'[t] = ret[t] /\ LetGo(t)
    /\ UNCHANGED <<n_graph, last_graph, pending, ret, abort, ec, cgraph, asked, current_chunk, nth,
                   node, chunk, done>>
    /\ \A u \in Threads : u # t => pc'[u] = pc[u]
    /\ n_barrier' = 0
    /\ t \in Active /\ Arrived = Active \ {t}
    /\ \A u \in Threads : u # t /\ pc[u] = "spin" => Lags(u)'

LEMMA ReleaseFacts ==
  ASSUME IInv, TypeOK', NEW t \in Threads, Release(t)
  PROVE  /\ \A u \in Active : /\ u \in Threads /\ ~Lags(u) /\ ~Resting(u) /\ Placed(u)
                              /\ AtBarrier(u) /\ nth[u] = n_graph.n /\ pc[u] # "chunk"
                              /\ u # t => pc[u] = "spin" /\ Lags(u)'
         /\ base.after # "out" /\ 0 \in Active /\ Active' = Active
         /\ ret[t] \in {"head", "chunk", "return", "top"} /\ ~Lags(t)'
         /\ n_graph.n \in Nat
<1>1. \A u \in Active : u # t => pc[u] = "spin" /\ ~Lags(u) /\ Lags(u)'
  BY ActiveThreads DEF Release, Arrived, Lags, IInv
<1>2. ~Lags(t)
  BY DEF Release, Lags
<1>3. ret[t] \in {"head", "chunk", "return", "top"}
  BY DEF IInv, TypeOK, BarrierTypeOK
<1>4. ~Lags(t)'
  BY <1>3 DEF Release, Lags
<1>5. \A u \in Active : u \in Threads /\ pc[u] \in InBarrier /\ ~Lags(u)
  BY <1>1, <1>2, ActiveThreads DEF Release, InBarrier, IInv
<1>6. \A u \in Active : ~Resting(u) /\ pc[u] \in Computing /\ pc[u] # "chunk"
  BY <1>5 DEF Resting, InBarrier, Computing, Calling, Waiting
<1>7. \A u \in Active : Placed(u) /\ base.after # "out" /\ n_graph.n \in Nat /\ n_graph.n > 0
  BY <1>5, <1>6, ThreadActive
<1>8. \A u \in Active : AtBarrier(u) /\ nth[u] = n_graph.n
  BY <1>5, <1>7 DEF Placed, InBarrier
<1>9. 0 \in Active /\ Active' = Active /\ n_graph.n \in Nat /\ base.after # "out"
  BY <1>7 DEF Release, Active
<1>. QED  BY <1>1, <1>3, <1>4, <1>5, <1>6, <1>7, <1>8, <1>9

\* When all threads have ended a node every part of it is done.
LEMMA NodeDone ==
  ASSUME IInv, TypeOK', NEW t \in Threads, Release(t), Ended(t),
         \A u \in Active : Ended(u) /\ node[u] = node[t]
  PROVE  /\ node[t] \in 1 .. Len(cgraph) /\ base.node <= node[t]
         /\ \A k \in 1 .. Len(cgraph) : k <= node[t] => Parts(cgraph, k, n_graph.n) \subseteq done
         /\ \A p \in done : p[1] <= node[t]
         /\ abort \in {0, node[t] + 1}
<1>. DEFINE j == node[t]
<1>1. /\ j \in Nat /\ Len(cgraph) \in Nat /\ base.node \in Nat /\ abort \in Nat
      /\ \A k \in 1 .. Len(cgraph) : /\ cgraph[k].kind \in {"skip", "rows", "mul_mat"}
                                     /\ cgraph[k].chunks \in Nat
  BY Numbers, GraphIsSeq DEF IInv
<1>2. n_graph.n \in Nat /\ base.after # "out" /\ t \in Active
  BY ReleaseFacts DEF Release
<1>3. \A p \in done : p[1] \in Nat /\ (p[1] <= base.node \/ Reached(p[1]))
  <2>1. \A p \in done : p[1] \in Nat
    BY DEF IInv, TypeOK, WorkTypeOK
  <2>. QED  BY <1>2, <2>1 DEF IInv, DoneInv
<1>4. \A k \in 1 .. Len(cgraph) : k < base.node \/ (k = base.node /\ base.after = "head")
         => Parts(cgraph, k, n_graph.n) \subseteq done
  BY <1>2 DEF IInv, DoneInv
<1>5. abort \in {0, base.node + 1} \/ Reached(abort - 1)
  BY <1>2 DEF IInv, AbortInv
<1>6. CASE Reached(j) /\ cgraph[j].kind = "rows"
  <2>1. base.after = "head" /\ base.node < j /\ j \in 1 .. Len(cgraph) /\ abort # base.node + 1
        /\ \A k \in base.node + 1 .. j - 1 : cgraph[k].kind = "skip"
    BY <1>1, <1>6 DEF Reached, OnlySkips
  <2>2. \A k \in Nat : Reached(k) => k = j
    BY <1>1, <1>6, ReachedOnce
  <2>3. ASSUME NEW p \in done PROVE p[1] <= j
    <3>1. p[1] \in Nat /\ (p[1] <= base.node \/ p[1] = j)
      BY <1>3, <2>2
    <3>2. j \in Nat /\ base.node \in Nat /\ base.node < j
      BY <1>1, <2>1
    <3>. QED  BY <3>1, <3>2
  <2>4. abort \in {0, j + 1}
    <3>1. CASE Reached(abort - 1)
      <4>1. abort - 1 \in Nat
        BY <1>1, <3>1 DEF Reached
      <4>. QED  BY <1>1, <2>2, <3>1, <4>1
    <3>2. CASE abort = 0
      BY <3>2
    <3>. QED  BY <1>5, <2>1, <3>1, <3>2
  <2>5. Parts(cgraph, j, n_graph.n) \subseteq done
    <3>1. \A i \in Active : <<j, "rows", i>> \in done
      BY <1>6 DEF Ended, RowsDone
    <3>. QED  BY <1>6, <3>1 DEF Parts, Active
  <2>6. \A k \in 1 .. Len(cgraph) : k <= j => Parts(cgraph, k, n_graph.n) \subseteq done
    <3>. SUFFICES ASSUME NEW k \in 1 .. Len(cgraph), k <= j
                  PROVE  Parts(cgraph, k, n_graph.n) \subseteq done
      OBVIOUS
    <3>1. CASE k <= base.node
      BY <1>1, <1>4, <2>1, <3>1, SMTT(30)
    <3>2. CASE base.node < k /\ k < j
      BY <1>1, <2>1, <3>2, SMTT(30) DEF Parts
    <3>3. CASE k = j
      BY <2>5, <3>3
    <3>. QED  BY <1>1, <3>1, <3>2, <3>3
  <2>7. base.node <= j
    BY <1>1, <2>1
  <2>. QED  BY <2>1, <2>3, <2>4, <2>6, <2>7
<1>7. CASE base.after = "chunk" /\ base.node = j
  <2>1. j \in 1 .. Len(cgraph) /\ cgraph[j].kind = "mul_mat"
        /\ \A i \in Active : <<j, "src1", i>> \in done
    BY <1>7 DEF IInv, DoneInv
  <2>2. \A k : ~Reached(k)
    BY <1>7 DEF Reached
  <2>3. Parts(cgraph, j, n_graph.n) \subseteq done
    <3>1. \A u \in Active : \A c : ~Holds(u, c)
      BY ReleaseFacts DEF Holds
    <3>2. cgraph[j].chunks <= current_chunk /\ current_chunk \in Nat
      BY <2>1, Numbers DEF Ended, ChunksGone
    <3>3. \A c \in 0 .. cgraph[j].chunks - 1 : c < current_chunk
      BY <1>1, <2>1, <3>2
    <3>4. \A c \in 0 .. cgraph[j].chunks - 1 : <<j, "chunk", c>> \in done
      BY <1>7, <3>1, <3>3 DEF IInv, ChunkInv
    <3>. QED  BY <2>1, <3>4 DEF Parts, Active
  <2>4. \A p \in done : p[1] <= j
    BY <1>3, <1>7, <2>2
  <2>5. \A k \in 1 .. Len(cgraph) : k <= j => Parts(cgraph, k, n_graph.n) \subseteq done
    <3>1. \A k \in 1 .. Len(cgraph) : k <= j => k < j \/ k = j
      BY <1>1
    <3>. QED  BY <1>4, <1>7, <2>3, <3>1
  <2>6. abort \in {0, j + 1}
    BY <1>5, <1>7, <2>2
  <2>. QED  BY <1>1, <1>7, <2>1, <2>4, <2>5, <2>6
<1>. QED  BY <1>6, <1>7 DEF Ended, Ending

LEMMA ReleaseRest ==
  ASSUME IInv, TypeOK', NEW t \in Threads, Release(t)
  PROVE  /\ ret[t] \in {"chunk", "head"} =>
               /\ base' = [node |-> node[t], after |-> ret[t]]
               /\ \A u \in Active : /\ ret[u] = ret[t] /\ node[u] = node[t] /\ ~Resting(u)'
         /\ ret[t] \notin {"chunk", "head"} =>
               /\ base'.after = "out" /\ ret[t] = OutOf(t)
               /\ \A u \in Active : ret[u] = OutOf(u) /\ Resting(u)'
         /\ \A u \in Threads \ Active : (Resting(u)' <=> Resting(u)) /\ pc'[u] = pc[u]
<1>1. \A u \in Active : u \in Threads /\ AtBarrier(u)
  BY ReleaseFacts
<1>2. AtBarrier(t) /\ t \in Active
  BY <1>1 DEF Release
<1>3. \A u \in Active : /\ ret[t] \in {"chunk", "head"} => ret[u] = ret[t] /\ node[u] = node[t]
                        /\ ret[t] \notin {"chunk", "head"} => ret[u] = OutOf(u) /\ ret[t] = OutOf(t)
  BY <1>1, <1>2, SameBarrier
<1>4. /\ ret[t] \in {"chunk", "head"} => base' = [node |-> node[t], after |-> ret[t]]
      /\ ret[t] \notin {"chunk", "head"} => base'.after = "out"
  BY ReleaseFacts DEF Release, LetGo
<1>5. \A u \in Active : Resting(u)' <=> ret[u] = OutOf(u)
  <2>. SUFFICES ASSUME NEW u \in Active
                PROVE  Resting(u)' <=> ret[u] = OutOf(u)
    OBVIOUS
  <2>1. CASE u = t
    <3>1. pc'[t] = ret[t] /\ ret[t] \in {"head", "chunk", "return", "top"} /\ ~Lags(t)'
      BY ReleaseFacts DEF Release
    <3>2. AtBarrier(t) => ret[t] \in {"head", "chunk", OutOf(t)}
      BY DEF AtBarrier
    <3>. QED  BY <1>2, <2>1, <3>1, <3>2 DEF Resting, OutOf, Calling, Waiting
  <2>2. CASE u # t
    <3>1. pc'[u] = "spin" /\ Lags(u)' /\ ret'[u] = ret[u]
      BY <2>2, ReleaseFacts DEF Release
    <3>. QED  BY <3>1 DEF Resting, OutOf, Calling, Waiting
  <2>. QED  BY <2>1, <2>2
<1>6. \A u \in Threads \ Active : (Resting(u)' <=> Resting(u)) /\ pc'[u] = pc[u]
  <2>. SUFFICES ASSUME NEW u \in Threads \ Active
                PROVE  (Resting(u)' <=> Resting(u)) /\ pc'[u] = pc[u]
    OBVIOUS
  <2>1. u # t /\ pc'[u] = pc[u] /\ ret'[u] = ret[u]
    BY DEF Release
  <2>2. Resting(u) /\ u # 0
    <3>1. u # 0 /\ u \in Workers
      BY ReleaseFacts DEF Threads, Workers
    <3>. QED  BY <3>1 DEF IInv, WorkerInv
  <2>3. pc[u] = "spin" => Lags(u)'
    BY <2>1 DEF Release
  <2>4. Lags(u) => pc[u] = "spin"
    BY DEF Lags
  <2>. QED  BY <2>1, <2>2, <2>3, <2>4 DEF Resting, OutOf
<1>7. \A u \in Active : ret[t] \in {"chunk", "head"} => ret[u] # OutOf(u)
  BY <1>3 DEF OutOf
<1>8. \A u \in Active : /\ ret[t] \in {"chunk", "head"} => ~Resting(u)'
                        /\ ret[t] \notin {"chunk", "head"} => Resting(u)'
  BY <1>3, <1>5, <1>7
<1>. QED  BY <1>2, <1>3, <1>4, <1>6, <1>8

\* Where the threads go on when the graph is not at its end.
LEMMA ReleaseOnward ==
  ASSUME IInv, TypeOK', NEW t \in Threads, Release(t), ret[t] \in {"chunk", "head"}
  PROVE  PlacedInv' /\ AbortInv' /\ DoneInv' /\ ChunkInv'
<1>1. /\ UNCHANGED <<n_graph, last_graph, pending, ret, abort, ec, cgraph, asked, current_chunk,
                     nth, node, chunk, done>>
      /\ \A u \in Threads : u # t => pc'[u] = pc[u]
      /\ pc'[t] = ret[t] /\ t \in Active
  BY DEF Release
<1>2. base' = [node |-> node[t], after |-> ret[t]]
      /\ base'.node = node[t] /\ base'.after = ret[t]
      /\ \A u \in Active : /\ ret[u] = ret[t] /\ node[u] = node[t] /\ ~Resting(u)'
  BY ReleaseRest
<1>3. /\ node[t] \in Nat /\ Len(cgraph) \in Nat /\ base.node \in Nat /\ abort \in Nat
      /\ n_graph.n \in Nat /\ current_chunk \in Nat
      /\ \A p \in done : p[1] \in Nat
      /\ \A k \in 1 .. Len(cgraph) : /\ cgraph[k].kind \in {"skip", "rows", "mul_mat"}
                                     /\ cgraph[k].chunks \in Nat
  <2>1. \A p \in done : p[1] \in Nat
    BY DEF IInv, TypeOK, WorkTypeOK
  <2>. QED  BY <2>1, Numbers, GraphIsSeq, ReleaseFacts DEF IInv
<1>4. base.after # "out" /\ Active' = Active /\ 0 \in Active
  BY ReleaseFacts
<1>5. \A u \in Active : AtBarrier(u) /\ u \in Threads
  BY ReleaseFacts
<1>6. \A p \in done : /\ p[1] >= 1 /\ p[1] <= Len(cgraph)
                      /\ p \in Parts(cgraph, p[1], n_graph.n)
                      /\ p[1] <= base.node \/ Reached(p[1])
                      /\ p[2] = "chunk" => p[1] <= base.node
  BY <1>3, <1>4 DEF IInv, DoneInv
<1>7. abort \in {0, base.node + 1} \/ Reached(abort - 1)
  BY <1>4 DEF IInv, AbortInv
<1>8. ret[t] = "head" => \A u \in Active : Ended(u) /\ node[u] < Len(cgraph)
  BY <1>2, <1>5 DEF AtBarrier, OutOf
<1>9. ret[t] = "chunk" =>
         /\ Reached(node[t]) /\ cgraph[node[t]].kind = "mul_mat"
         /\ \A u \in Active : /\ <<node[t], "src1", u>> \in done /\ chunk[u] = u
                              /\ u = 0 => current_chunk = n_graph.n
  <2>1. ret[t] = "chunk" =>
         \A u \in Active : /\ Reached(node[t]) /\ cgraph[node[t]].kind = "mul_mat"
                           /\ <<node[t], "src1", u>> \in done /\ chunk[u] = u
                           /\ u = 0 => current_chunk = n_graph.n
    BY <1>2, <1>5 DEF AtBarrier, OutOf
  <2>. QED  BY <1>1, <2>1
<1>10. ret[t] = "chunk" => base.after = "head" /\ base.node < node[t]
                           /\ node[t] \in 1 .. Len(cgraph) /\ abort # base.node + 1
  BY <1>1, <1>3, <1>9 DEF Reached
<1>11. \A k \in Nat : ret[t] = "chunk" /\ Reached(k) => k = node[t]
  BY <1>1, <1>3, <1>9, ReachedOnce
<1>12. ret[t] = "head" =>
         /\ node[t] \in 1 .. Len(cgraph) /\ base.node <= node[t]
         /\ \A k \in 1 .. Len(cgraph) : k <= node[t] => Parts(cgraph, k, n_graph.n) \subseteq done
         /\ \A p \in done : p[1] <= node[t]
         /\ abort \in {0, node[t] + 1}
  BY <1>1, <1>2, <1>8, NodeDone
<1>13. PlacedInv'
  <2>. SUFFICES ASSUME NEW u \in Active
                PROVE  Placed(u)'
    BY <1>4 DEF PlacedInv
  <2>1. CASE u = t
    <3>1. AtHead(t)' \/ ret[t] # "head"
      <4>. SUFFICES ASSUME ret[t] = "head" PROVE AtHead(t)'
        OBVIOUS
      <4>. QED  BY <1>1, <1>2, <1>3, <1>12 DEF AtHead, OnlySkips
    <3>2. ~Lags(t)' /\ nth[t] = n_graph.n
      BY <1>1, ReleaseFacts
    <3>. QED  BY <1>1, <1>2, <2>1, <3>1, <3>2 DEF Placed, InBarrier
  <2>2. CASE u # t
    <3>1. pc'[u] = "spin" /\ Lags(u)' /\ nth[u] = n_graph.n
      BY <1>1, <1>5, <2>2, ReleaseFacts
    <3>. QED  BY <1>1, <1>2, <3>1 DEF Placed
  <2>. QED  BY <2>1, <2>2
<1>14. AbortInv'
  <2>1. abort \in {0, node[t] + 1}
    BY <1>3, <1>7, <1>10, <1>11, <1>12, SMTT(30) DEF Reached
  <2>. QED  BY <1>1, <1>2, <2>1 DEF IInv, AbortInv
<1>15. DoneInv'
  <2>1. \A p \in done : p[1] <= node[t]
    BY <1>3, <1>6, <1>10, <1>11, <1>12
  <2>2. \A k \in 1 .. Len(cgraph) : k < node[t] \/ (k = node[t] /\ ret[t] = "head")
           => Parts(cgraph, k, n_graph.n) \subseteq done
    <3>1. CASE ret[t] = "head"
      BY <1>3, <1>12, <3>1
    <3>2. CASE ret[t] = "chunk"
      <4>. SUFFICES ASSUME NEW k \in 1 .. Len(cgraph), k < node[t]
                    PROVE  Parts(cgraph, k, n_graph.n) \subseteq done
        BY <3>2
      <4>1. CASE k <= base.node
        <5>1. k < base.node \/ (k = base.node /\ base.after = "head")
          BY <1>3, <1>10, <3>2, <4>1
        <5>. QED  BY <1>4, <5>1 DEF IInv, DoneInv
      <4>2. CASE base.node < k
        <5>1. cgraph[k].kind = "skip"
          BY <1>1, <1>3, <1>9, <3>2, <4>2 DEF Reached, OnlySkips
        <5>. QED  BY <5>1 DEF Parts
      <4>. QED  BY <1>3, <4>1, <4>2
    <3>. QED  BY <3>1, <3>2
  <2>3. ret[t] = "chunk" => /\ node[t] \in 1 .. Len(cgraph)
                            /\ cgraph[node[t]].kind = "mul_mat"
                            /\ \A i \in Active : <<node[t], "src1", i>> \in done
    BY <1>1, <1>9, <1>10
  <2>4. node[t] <= Len(cgraph)
    BY <1>3, <1>10, <1>12
  <2>5. base'.after # "out"
    BY <1>2
  <2>6. \A p \in done : p[1] <= base'.node /\ (p[2] = "chunk" => p[1] <= base'.node)
    BY <1>2, <2>1
  <2>. QED  BY <1>1, <1>2, <1>3, <1>4, <1>6, <2>2, <2>3, <2>4, <2>5, <2>6 DEF DoneInv
<1>16. ChunkInv'
  <2>. SUFFICES ASSUME ret[t] = "chunk"
                PROVE  ChunkInv'
    BY <1>2 DEF ChunkInv
  <2>1. current_chunk = n_graph.n /\ \A u \in Active : u \in 0 .. n_graph.n - 1 /\ chunk[u] = u
    BY <1>4, <1>9 DEF Active
  <2>2. \A c : <<node[t], "chunk", c>> \notin done
    <3>. SUFFICES ASSUME NEW c, <<node[t], "chunk", c>> \in done
                  PROVE  FALSE
      OBVIOUS
    <3>1. node[t] <= base.node
      BY <1>6
    <3>. QED  BY <1>3, <1>10, <3>1
  <2>3. \A p \in done : p[2] = "chunk" => p[1] # node[t]
    BY <1>3, <1>6, <1>10
  <2>4. \A u \in Active : Holds(u, u)'
    <3>. SUFFICES ASSUME NEW u \in Active
                  PROVE  (pc'[u] = "chunk" \/ Lags(u)') /\ ~Resting(u)' /\ chunk'[u] = u
      BY DEF Holds
    <3>. QED  BY <1>1, <1>2, <2>1, ReleaseFacts
  <2>5. \A c \in Nat : c < n_graph.n => c \in Active
    BY <1>3 DEF Active
  <2>6. \A c \in 0 .. cgraph[node[t]].chunks - 1 : c < current_chunk => \E u \in Active : Holds(u, c)'
    BY <1>3, <1>10, <2>1, <2>4, <2>5
  <2>. QED  BY <1>1, <1>2, <1>3, <1>4, <2>1, <2>2, <2>3, <2>6 DEF ChunkInv
<1>. QED  BY <1>13, <1>14, <1>15, <1>16

\* ... and when it is.
LEMMA ReleaseOut ==
  ASSUME IInv, TypeOK', NEW t \in Threads, Release(t), ret[t] \notin {"chunk", "head"}
  PROVE  PlacedInv' /\ AbortInv' /\ DoneInv' /\ ChunkInv'
<1>1. UNCHANGED <<n_graph, abort, ec, cgraph, done>>
  BY DEF Release
<1>2. base'.after = "out" /\ ret[t] = OutOf(t) /\ \A u \in Active : ret[u] = OutOf(u) /\ Resting(u)'
  BY ReleaseRest
<1>3. /\ node[t] \in Nat /\ Len(cgraph) \in Nat /\ base.node \in Nat /\ abort \in Nat
      /\ n_graph.n \in Nat
      /\ \A k \in 1 .. Len(cgraph) : /\ cgraph[k].kind \in {"skip", "rows", "mul_mat"}
                                     /\ cgraph[k].chunks \in Nat
  BY Numbers, GraphIsSeq, ReleaseFacts DEF IInv
<1>4. base.after # "out" /\ Active' = Active /\ t \in Active
  BY ReleaseFacts DEF Release
<1>5. PlacedInv' /\ ChunkInv'
  BY <1>2, <1>4 DEF PlacedInv, ChunkInv
<1>6. AbortInv'
  BY <1>1, <1>2 DEF AbortInv, IInv
<1>. DEFINE last == IF ec = "success" THEN Len(cgraph) ELSE abort - 1
            All == UNION {Parts(cgraph, k, n_graph.n) : k \in 1 .. last}
<1>7. \A p \in done : /\ p[1] \in Nat /\ p[1] >= 1 /\ p[1] <= Len(cgraph)
                      /\ p \in Parts(cgraph, p[1], n_graph.n)
                      /\ p[1] <= base.node \/ Reached(p[1])
  <2>1. \A p \in done : p[1] \in Nat
    BY DEF IInv, TypeOK, WorkTypeOK
  <2>. QED  BY <1>4, <2>1 DEF IInv, DoneInv
<1>8. /\ ec = "success" <=> abort = 0
      /\ abort \in {0, base.node + 1} \/ Reached(abort - 1)
      /\ base.node <= Len(cgraph)
  BY <1>4 DEF IInv, AbortInv, DoneInv
<1>9. \A k \in 1 .. Len(cgraph) : k < base.node \/ (k = base.node /\ base.after = "head")
         => Parts(cgraph, k, n_graph.n) \subseteq done
  BY <1>4 DEF IInv, DoneInv
<1>10. \A k \in 1 .. Len(cgraph) : cgraph[k].kind = "skip" => Parts(cgraph, k, n_graph.n) = {}
  BY DEF Parts
<1>11. ASSUME last \in Nat, last <= Len(cgraph),
              \A p \in done : p[1] <= last,
              \A k \in 1 .. last : Parts(cgraph, k, n_graph.n) \subseteq done
       PROVE  done = All
  <2>1. \A p \in done : p[1] \in 1 .. last /\ p \in Parts(cgraph, p[1], n_graph.n)
    BY <1>3, <1>7, <1>11
  <2>2. done \subseteq All
    BY <2>1
  <2>3. All \subseteq done
    BY <1>11
  <2>. QED  BY <2>2, <2>3
<1>12. EndsHere \/ (node[t] = Len(cgraph) /\ \A u \in Active : Ended(u) /\ node[u] = Len(cgraph))
  <2>1. \A u \in Active : EndsHere \/ (node[u] = Len(cgraph) /\ Ended(u))
    BY <1>2, ReleaseFacts DEF AtBarrier, OutOf
  <2>. QED  BY <1>4, <2>1
<1>13. done = All
  <2>1. CASE EndsHere /\ abort = base.node + 1
    <3>1. base.after = "head" /\ last = base.node /\ \A k : ~Reached(k)
      BY <1>3, <1>8, <2>1 DEF EndsHere, Reached
    <3>2. \A p \in done : p[1] <= last
      BY <1>7, <3>1
    <3>3. \A k \in 1 .. last : Parts(cgraph, k, n_graph.n) \subseteq done
      <4>1. \A k \in 1 .. base.node : k \in 1 .. Len(cgraph) /\ (k < base.node \/ k = base.node)
        BY <1>3, <1>8
      <4>. QED  BY <1>9, <3>1, <4>1
    <3>. QED  BY <1>3, <1>8, <1>11, <3>1, <3>2, <3>3
  <2>2. CASE EndsHere /\ abort # base.node + 1
    <3>1. base.after = "head" /\ \A k \in base.node + 1 .. Len(cgraph) : cgraph[k].kind = "skip"
      BY <2>2 DEF EndsHere, OnlySkips
    <3>2. \A k \in Nat : ~Reached(k)
      BY <1>3, <3>1 DEF Reached
    <3>3. abort = 0 /\ last = Len(cgraph)
      <4>1. ~Reached(abort - 1)
        BY <1>3, <3>1 DEF Reached
      <4>. QED  BY <1>8, <2>2, <4>1
    <3>4. \A p \in done : p[1] <= last
      BY <1>7, <3>3
    <3>5. \A k \in 1 .. last : Parts(cgraph, k, n_graph.n) \subseteq done
      <4>1. \A k \in 1 .. Len(cgraph) : k < base.node \/ k = base.node \/ k \in base.node + 1 .. Len(cgraph)
        BY <1>3
      <4>. QED  BY <1>9, <1>10, <3>1, <3>3, <4>1
    <3>. QED  BY <1>3, <1>11, <3>3, <3>4, <3>5
  <2>3. CASE node[t] = Len(cgraph) /\ \A u \in Active : Ended(u) /\ node[u] = Len(cgraph)
    <3>1. /\ Len(cgraph) \in 1 .. Len(cgraph)
          /\ \A k \in 1 .. Len(cgraph) : k <= Len(cgraph) => Parts(cgraph, k, n_graph.n) \subseteq done
          /\ \A p \in done : p[1] <= Len(cgraph)
          /\ abort \in {0, Len(cgraph) + 1}
      BY <1>4, <2>3, NodeDone
    <3>2. last = Len(cgraph)
      BY <1>3, <1>8, <3>1
    <3>3. \A k \in 1 .. last : Parts(cgraph, k, n_graph.n) \subseteq done
      BY <1>3, <3>1, <3>2
    <3>. QED  BY <1>3, <1>11, <3>1, <3>2, <3>3
  <2>. QED  BY <1>12, <2>1, <2>2, <2>3
<1>14. DoneInv'
  BY <1>1, <1>2, <1>13 DEF DoneInv
<1>. QED  BY <1>5, <1>6, <1>14

LEMMA ReleaseStep ==
  ASSUME IInv, TypeOK', NEW t \in Threads, Release(t), BarrierInv'
  PROVE  IInv'
<1>. USE Bounds
<1>1. /\ UNCHANGED <<n_graph, last_graph, pending, asked>>
      /\ \A u \in Threads : u # t => pc'[u] = pc[u]
      /\ pc'[t] = ret[t] /\ t \in Active /\ pc[t] \in {"barrier", "release"}
  BY DEF Release
<1>2. /\ \A u \in Active : u \in Threads /\ ~Resting(u) /\ (u # t => pc[u] = "spin")
      /\ base.after # "out" /\ Active' = Active /\ 0 \in Active /\ n_graph.n \in Nat
  BY ReleaseFacts
<1>3. \/ /\ ret[t] \in {"chunk", "head"} /\ base'.after = ret[t]
         /\ \A u \in Active : ~Resting(u)'
      \/ /\ ret[t] = OutOf(t) /\ base'.after = "out"
         /\ \A u \in Active : Resting(u)'
  BY ReleaseRest
<1>4. \A u \in Threads \ Active : (Resting(u)' <=> Resting(u)) /\ pc'[u] = pc[u]
  BY ReleaseRest
<1>5. PlacedInv' /\ AbortInv' /\ DoneInv' /\ ChunkInv'
  BY ReleaseOnward, ReleaseOut
<1>6. n_graph.n > 0
  BY <1>2 DEF Active
<1>7. CallerInv'
  <2>1. Resting(0)' <=> base'.after = "out"
    BY <1>2, <1>3
  <2>2. pc[0] \in {"barrier", "release", "spin"}
    BY <1>1, <1>2
  <2>3. pc'[0] \in {"spin", "barrier", "release", "chunk", "head", "return"}
    BY <1>1, <1>3, <2>2 DEF OutOf
  <2>4. n_graph.n = asked
    BY <2>2 DEF IInv, CallerInv, Computing, InBarrier
  <2>5. 1 <= n_graph.n
    BY <1>2, <1>6
  <2>. QED  BY <1>1, <1>6, <2>1, <2>3, <2>4, <2>5 DEF CallerInv, Waiting
<1>8. WorkerInv'
  <2>. SUFFICES ASSUME NEW w \in Workers
                PROVE  /\ pc'[w] \notin Calling \cup {"kick", "freeing"}
                       /\ pending'[w] <=> pc'[w] = "work"
                       /\ w \notin Active => Resting(w)'
                       /\ base'.after = "out" => Resting(w)'
                       /\ w \in Active => last_graph[w] = n_graph
                       /\ w \in Active /\ base'.after # "out" => ~Resting(w)'
    BY <1>1, <1>2 DEF WorkerInv
  <2>1. w \in Threads /\ w # 0
    BY DEF Workers
  <2>2. CASE w \in Active
    <3>1. pc[w] \in {"barrier", "release", "spin"} /\ ~Resting(w)
      BY <1>1, <1>2, <2>2
    <3>2. pc'[w] \in {"spin", "chunk", "head", "top"}
      BY <1>1, <1>2, <1>3, <2>1, <2>2 DEF OutOf
    <3>3. last_graph[w] = n_graph /\ ~pending[w]
      BY <2>2, <3>1 DEF IInv, WorkerInv
    <3>. QED  BY <1>1, <1>3, <2>2, <3>2, <3>3 DEF Calling
  <2>3. CASE w \notin Active
    BY <1>1, <1>4, <2>1, <2>3 DEF IInv, WorkerInv
  <2>. QED  BY <2>2, <2>3
<1>. QED  BY <1>5, <1>7, <1>8 DEF IInv

\* ggml_barrier of a graph with one thread.
LEMMA EnterAloneStep ==
  ASSUME IInv, TypeOK', NEW t \in Threads, EnterBarrier(t), n_graph.n = 1
  PROVE  IInv'
<1>1. /\ UNCHANGED <<n_graph, last_graph, pending, n_barrier, n_barrier_passed, bar_passed, ret,
                     abort, ec, cgraph, asked, current_chunk, nth, node, chunk, done>>
      /\ pc[t] = "barrier" /\ pc'[t] = ret[t] /\ LetGo(t)
      /\ \A u \in Threads : u # t => pc'[u] = pc[u]
  BY DEF EnterBarrier, Goto, poolVars, graphVars, workVars, IInv, TypeOK
<1>2. t \in Active
  <2>1. pc[t] \in Computing /\ ~Resting(t)
    BY <1>1 DEF Computing, InBarrier, Resting, Lags, Calling, Waiting
  <2>. QED  BY <2>1, ThreadActive
<1>3. Active = {t} /\ t = 0 /\ Active' = Active
  BY <1>1, <1>2 DEF Active
<1>4. Arrived = {}
  BY <1>1, <1>3 DEF Arrived
<1>5. \A u \in Threads : u # t => u \in Workers /\ Resting(u)
  <2>1. \A u \in Threads : u # t => u \in Workers /\ u \notin Active
    BY <1>3 DEF Threads, Workers
  <2>. QED  BY <2>1 DEF IInv, WorkerInv
<1>6. \A u \in Threads : u # t => /\ pc[u] \notin {"arrive", "last", "release"}
                                  /\ pc[u] = "spin" => Lags(u) /\ Lags(u)'
  <2>1. \A u \in Threads : u # t => /\ pc[u] \notin {"arrive", "last", "release"}
                                    /\ pc[u] = "spin" => Lags(u)
    BY <1>3, <1>5 DEF Resting, Lags, Waiting
  <2>. QED  BY <1>1, <2>1 DEF Lags
<1>7. n_barrier = 0
  <2>1. \A u \in Threads : pc[u] \notin {"last", "release"}
    BY <1>1, <1>6
  <2>. QED  BY <1>4, <2>1, FS_EmptySet DEF IInv, BarrierInv
<1>8. ret[t] \in {"head", "chunk", "return", "top"}
  BY DEF IInv, TypeOK, BarrierTypeOK
<1>9. BarrierInv'
  <2>1. Arrived' = {} /\ Cardinality(Arrived') = 0
    <3>1. Arrived' = {}
      BY <1>1, <1>3, <1>8 DEF Arrived
    <3>. QED  BY <3>1, FS_EmptySet
  <2>2. \A u \in Threads : /\ pc'[u] \notin {"arrive", "last", "release"}
                           /\ pc'[u] = "spin" => Lags(u)' /\ bar_passed'[u] <= n_barrier_passed'
    BY <1>1, <1>6, <1>8 DEF IInv, BarrierInv
  <2>. QED  BY <1>1, <1>7, <2>1, <2>2 DEF BarrierInv
<1>10. Release(t)
  BY <1>1, <1>2, <1>3, <1>4, <1>6, <1>7 DEF Release
<1>. QED  BY <1>9, <1>10, ReleaseStep

LEMMA ReleaseBarrierStep ==
  ASSUME IInv, TypeOK', NEW t \in Threads, ReleaseBarrier(t)
  PROVE  IInv'
<1>1. /\ UNCHANGED <<n_graph, last_graph, pending, n_barrier, bar_n, bar_passed, ret,
                     abort, ec, cgraph, asked, current_chunk, nth, node, chunk, done>>
      /\ pc[t] = "release" /\ pc'[t] = ret[t] /\ LetGo(t)
      /\ n_barrier_passed' = n_barrier_passed + 1
      /\ \A u \in Threads : u # t => pc'[u] = pc[u]
  BY DEF ReleaseBarrier, Goto, poolVars, graphVars, workVars, IInv, TypeOK
<1>2. t \in Active
  <2>1. pc[t] \in Computing /\ ~Resting(t)
    BY <1>1 DEF Computing, InBarrier, Resting, Lags, Calling, Waiting
  <2>. QED  BY <2>1, ThreadActive
<1>3. Arrived = Active \ {t} /\ n_barrier = 0 /\ Active' = Active /\ Active \subseteq Threads
  BY <1>1, ActiveThreads DEF IInv, BarrierInv, Active
<1>4. n_barrier_passed \in Nat /\ \A u \in Threads : bar_passed[u] \in Nat
  BY DEF IInv, TypeOK, BarrierTypeOK
<1>5. \A u \in Threads : u # t => pc[u] \notin {"arrive", "last", "release"}
  <2>. SUFFICES ASSUME NEW u \in Threads, u # t, pc[u] \in {"arrive", "last", "release"}
                PROVE  FALSE
    OBVIOUS
  <2>1. pc[u] \in Computing /\ ~Resting(u)
    BY DEF Computing, InBarrier, Resting, Lags, Calling, Waiting
  <2>2. u \in Active
    BY <2>1, ThreadActive
  <2>. QED  BY <1>3, <2>2 DEF Arrived
<1>6. \A u \in Threads : pc[u] = "spin" =>
          bar_passed'[u] <= n_barrier_passed' /\ bar_passed'[u] # n_barrier_passed'
  <2>1. \A u \in Threads : pc[u] = "spin" => bar_passed[u] <= n_barrier_passed
    BY DEF IInv, BarrierInv
  <2>. QED  BY <1>1, <1>4, <2>1
<1>7. ret[t] \in {"head", "chunk", "return", "top"}
  BY DEF IInv, TypeOK, BarrierTypeOK
<1>8. \A u \in Threads : /\ pc'[u] \notin {"arrive", "last", "release"}
                         /\ pc'[u] = "spin" => Lags(u)' /\ bar_passed'[u] <= n_barrier_passed'
  BY <1>1, <1>5, <1>6, <1>7 DEF Lags
<1>9. BarrierInv'
  <2>1. Arrived' = {}
    BY <1>3, <1>8 DEF Arrived, Lags
  <2>2. Cardinality(Arrived') = 0
    BY <2>1, FS_EmptySet
  <2>. QED  BY <1>1, <1>3, <1>8, <2>1, <2>2 DEF BarrierInv
<1>10. Release(t)
  BY <1>1, <1>2, <1>3, <1>8 DEF Release
<1>. QED  BY <1>9, <1>10, ReleaseStep

-----------------------------------------------------------------------------
(* The invariant.                                                          *)

LEMMA InvInit ==
  ASSUME Init
  PROVE  IInv
<1>1. TypeOK
  BY TypeInit
<1>2. /\ base.after = "out" /\ n_graph.n = 0 /\ n_barrier = 0 /\ abort = 0 /\ ec = "success"
      /\ pc[0] = "idle" /\ \A w \in Workers : w # 0 /\ w \in Threads /\ pc[w] = "top" /\ ~pending[w]
  BY Bounds DEF Init, Workers, Threads
<1>3. Active = {} /\ Arrived = {} /\ Cardinality(Arrived) = 0
  <2>1. Active = {} /\ Arrived = {}
    BY <1>2 DEF Active, Arrived
  <2>. QED  BY <2>1, FS_EmptySet
<1>4. \A t \in Threads : pc[t] \in {"idle", "top"} /\ Resting(t)
  BY DEF Init, Resting, Calling, Waiting
<1>5. CallerInv
  BY <1>2, <1>4, Bounds DEF CallerInv, Computing, AtNode, InBarrier, Waiting
<1>6. WorkerInv
  BY <1>2, <1>3, <1>4 DEF WorkerInv, Calling
<1>7. BarrierInv
  BY <1>2, <1>3, <1>4 DEF BarrierInv
<1>8. PlacedInv /\ AbortInv /\ DoneInv /\ ChunkInv
  BY <1>2, <1>3 DEF PlacedInv, AbortInv, DoneInv, ChunkInv, Computing, AtNode, InBarrier
<1>. QED  BY <1>1, <1>5, <1>6, <1>7, <1>8 DEF IInv

LEMMA ComputeStep ==
  ASSUME IInv, TypeOK', NEW t \in Threads, Compute(t)
  PROVE  IInv'
BY BeginStep, NextNodeStep, RowsStep, ConvertStep, ComputeChunkStep, FetchStep, EndNodeStep
DEF Compute

LEMMA BarrierStep ==
  ASSUME IInv, TypeOK', NEW t \in Threads, Barrier(t)
  PROVE  IInv'
BY EnterStep, EnterAloneStep, ArriveStep, ResetStep, ReleaseBarrierStep, LeaveStep DEF Barrier

LEMMA InvStep ==
  ASSUME IInv, [Next]_vars
  PROVE  IInv'
<1>. USE Bounds
<1>1. TypeOK'
  BY TypeStep DEF IInv
<1>2. CASE UNCHANGED vars
  <2>1. /\ UNCHANGED <<n_graph, last_graph, pending, barrierVars, graphVars, workVars, pc>>
    BY <1>2 DEF vars, poolVars
  <2>2. RestMoves
    BY <2>1 DEF RestMoves
  <2>. QED  BY <1>1, <2>2, RestStep
<1>3. CASE Steps0
  <2>1. CASE Compute(0) \/ Barrier(0)
    BY <1>1, <2>1, ComputeStep, BarrierStep
  <2>2. CASE Kickoff
    BY <1>1, <2>2, KickoffStep
  <2>3. CASE Return \/ StopWorkers \/ Join
    BY <1>1, <2>3, CallerRestStep
  <2>. QED  BY <1>3, <2>1, <2>2, <2>3 DEF Steps0
<1>4. CASE Locks0 \/ Free \/ (\E p \in BOOLEAN : PauseOrResume(p))
  BY <1>1, <1>4, CallerRestStep
<1>5. ASSUME NEW g \in Graphs, NEW n \in 1 .. NThreads + 1, Submit(g, n)
      PROVE  IInv'
  BY <1>1, <1>5, SubmitStep
<1>6. ASSUME NEW w \in Workers, StepsW(w) \/ AcquireLock(w) \/ SpuriousWakeup(w)
      PROVE  IInv'
  <2>1. CASE Compute(w) \/ Barrier(w)
    BY <1>1, <2>1, ComputeStep, BarrierStep
  <2>2. CASE Wait(w) \/ AcquireLock(w) \/ SpuriousWakeup(w)
    BY <1>1, <2>2, WaitStep
  <2>. QED  BY <1>6, <2>1, <2>2 DEF StepsW
<1>. QED  BY <1>2, <1>3, <1>4, <1>5, <1>6 DEF Next, Freed

LEMMA ThreadpoolInvariant == Spec => []IInv
<1>1. Init => IInv
  BY InvInit
<1>2. IInv /\ [Next]_vars => IInv'
  BY InvStep
<1>. QED  BY <1>1, <1>2, PTL DEF Spec

-----------------------------------------------------------------------------
(* What follows from it.                                                   *)

\* Every variable of the pool has its type in every state.
THEOREM ThreadpoolTypeCorrect == Spec => []TypeOK
<1>1. IInv => TypeOK
  BY DEF IInv
<1>. QED  BY <1>1, ThreadpoolInvariant, PTL

\* No thread starts on a node whose inputs another thread still computes.
THEOREM InputsAreReady == Spec => []InputsReady
<1>1. ASSUME IInv
      PROVE  InputsReady
  <2>. SUFFICES ASSUME NEW t \in Threads, pc[t] \in AtNode,
                       NEW k \in 1 .. node[t] - 1
                PROVE  Parts(cgraph, k, n_graph.n) \subseteq done
    BY DEF InputsReady
  <2>1. ~Resting(t) /\ pc[t] \in Computing
    BY DEF Resting, Lags, AtNode, Calling, Waiting, Computing
  <2>2. base.after # "out"
    BY <1>1, <2>1, ThreadActive
  <2>3. /\ node[t] \in 1 .. Len(cgraph) /\ Len(cgraph) \in Nat
        /\ Reached(node[t]) \/ (base.after = "chunk" /\ base.node = node[t])
    BY <1>1, <2>1, AtWork DEF AtNode
  <2>4. base.node \in Nat /\ k \in 1 .. Len(cgraph) /\ k < node[t]
    BY <1>1, <2>3, Numbers
  <2>5. CASE k < base.node \/ (k = base.node /\ base.after = "head")
    BY <1>1, <2>2, <2>4, <2>5 DEF IInv, DoneInv
  <2>6. CASE ~(k < base.node \/ (k = base.node /\ base.after = "head"))
    <3>1. Reached(node[t]) /\ base.node < k
      BY <2>3, <2>4, <2>6 DEF Reached
    <3>2. cgraph[k].kind = "skip"
      BY <2>3, <2>4, <3>1 DEF Reached, OnlySkips
    <3>. QED  BY <3>2 DEF Parts
  <2>. QED  BY <2>5, <2>6
<1>. QED  BY <1>1, ThreadpoolInvariant, PTL

\* No thread multiplies with a row of src1 that is not converted yet.
THEOREM Src1IsReady == Spec => []Src1Ready
<1>1. ASSUME IInv
      PROVE  Src1Ready
  <2>. SUFFICES ASSUME NEW t \in Threads, pc[t] \in {"chunk", "fetch"}
                PROVE  {<<node[t], "src1", i>> : i \in Active} \subseteq done
    BY DEF Src1Ready
  <2>1. ~Resting(t) /\ pc[t] \in Computing
    BY DEF Resting, Lags, AtNode, Calling, Waiting, Computing
  <2>2. base = [node |-> node[t], after |-> "chunk"]
    BY <1>1, <2>1, ThreadActive DEF Placed
  <2>3. base.after = "chunk" /\ base.node = node[t]
    BY <2>2
  <2>. QED  BY <1>1, <2>3 DEF IInv, DoneInv
<1>. QED  BY <1>1, ThreadpoolInvariant, PTL

\* The chunks of a matrix product are handed out once each.
THEOREM ChunksAreHandedOutOnce == Spec => []ChunkIsMine
<1>1. ASSUME IInv
      PROVE  ChunkIsMine
  <2>1. ASSUME NEW t \in Threads, pc[t] = "chunk"
        PROVE  /\ t \in Active /\ base.after = "chunk" /\ base.node = node[t]
               /\ Holds(t, chunk[t])
    <3>1. ~Resting(t) /\ pc[t] \in Computing
      BY <2>1 DEF Resting, Lags, AtNode, Calling, Waiting, Computing
    <3>2. t \in Active /\ base = [node |-> node[t], after |-> "chunk"]
      BY <1>1, <2>1, <3>1, ThreadActive DEF Placed
    <3>3. base.after = "chunk" /\ base.node = node[t]
      BY <3>2
    <3>. QED  BY <2>1, <3>1, <3>2, <3>3 DEF Holds
  <2>2. base.after = "chunk" =>
           /\ \A t \in Active : Holds(t, chunk[t]) => <<base.node, "chunk", chunk[t]>> \notin done
           /\ \A t, u \in Active : t # u /\ Holds(t, chunk[t]) /\ Holds(u, chunk[u])
                  => chunk[t] # chunk[u]
    BY <1>1 DEF IInv, ChunkInv
  <2>3. ASSUME NEW t \in Threads, pc[t] = "chunk"
        PROVE  /\ <<node[t], "chunk", chunk[t]>> \notin done
               /\ \A u \in Threads : u # t /\ pc[u] = "chunk" /\ node[u] = node[t]
                                         => chunk[u] # chunk[t]
    BY <2>1, <2>2, <2>3
  <2>. QED  BY <2>3 DEF ChunkIsMine
<1>. QED  BY <1>1, ThreadpoolInvariant, PTL

\* The caller sets up the next graph while no worker is in the last one.
THEOREM CallerIsAlone == Spec => []WorkersAreOut
<1>1. ASSUME IInv
      PROVE  WorkersAreOut
  <2>. SUFFICES ASSUME pc[0] \in Calling \cup {"kick", "freeing"}, NEW w \in Workers
                PROVE  /\ pc[w] \in Computing => pc[w] = "spin" /\ ret[w] = "top"
                       /\ pc[w] # "work"
    BY DEF WorkersAreOut
  <2>1. base.after = "out"
    BY <1>1 DEF IInv, CallerInv, Resting
  <2>2. Resting(w) /\ w # 0
    BY <1>1, <2>1 DEF IInv, WorkerInv, Workers
  <2>. QED
    BY <2>2 DEF Resting, Lags, OutOf, Waiting, Computing, AtNode, InBarrier
<1>. QED  BY <1>1, ThreadpoolInvariant, PTL

\* What ggml_graph_compute returns is what was computed.
THEOREM ResultIsTrue == Spec => []ReturnedGraphIsWhole
<1>1. ASSUME IInv
      PROVE  ReturnedGraphIsWhole
  <2>. SUFFICES ASSUME pc[0] = "return"
                PROVE  done = UNION {Parts(cgraph, k, n_graph.n) :
                          k \in 1 .. (IF ec = "success" THEN Len(cgraph) ELSE abort - 1)}
    BY DEF ReturnedGraphIsWhole
  <2>1. base.after = "out"
    BY <1>1 DEF IInv, CallerInv, Resting, Calling
  <2>. QED  BY <1>1, <2>1 DEF IInv, DoneInv
<1>. QED  BY <1>1, ThreadpoolInvariant, PTL

=============================================================================
