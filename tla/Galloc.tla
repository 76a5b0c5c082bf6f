------------------------------- MODULE Galloc -------------------------------
(***************************************************************************)
(* The graph allocator of ggml, ggml_gallocr of                            *)
(* src/whisper.cpp/ggml/src/ggml-alloc.c, and the part of the scheduler    *)
(* that calls it (ggml_backend_sched_alloc_splits of ggml-backend.cpp).    *)
(*                                                                         *)
(* Before a graph is computed its tensors are given addresses.  Memory is  *)
(* shared over time: the allocator walks the graph in the order in which   *)
(* it will be computed, frees a tensor after its last reader, and lets     *)
(* some operations write their result over their argument.  What it found  *)
(* out is kept, and used again without a walk for a later graph that has   *)
(* as many nodes and leafs, none of them larger.                           *)
(*                                                                         *)
(* Tensor t of a graph is graph.tensors[t]: the leafs, then the nodes, in  *)
(* the order of cgraph.leafs and cgraph.nodes.  Its fields:                *)
(*   op       "none" (GGML_OP_NONE), "inplace" (ggml_op_can_inplace holds) *)
(*            or "other"                                                   *)
(*   src      its arguments                                                *)
(*   view     the tensor it is a view of (view_src), 0 for none            *)
(*   input, output   the flags of ggml_set_input and ggml_set_output       *)
(*   external        it has memory of its own (weights, the KV cache)      *)
(*   layout   what ggml_are_same_layout compares                           *)
(*   size     what the buffer type says it needs; buffer, where it goes    *)
(* Buffers stand for buffer types: those of one type share an allocator.   *)
(***************************************************************************)
EXTENDS DynTallocr, FiniteSets

CONSTANTS
    Buffers,        \* the buffer types, in order 1 .. Buffers
    Graphs(_),      \* what the caller may ask memory for, with that many backends
    Again(_),       \* what it may ask memory for after a graph
    MaxGraphs,      \* bound on the graphs
    MaxFailures     \* bound on the allocations a backend refuses

VARIABLES
    n_buffers,      \* the number of backends (galloc->n_buffers)
    graph,          \* the graph that is to be computed
    pc,             \* where the scheduler and the allocator are
    caller,         \* "alloc" if ggml_gallocr_alloc_graph reserves, "sched" if the scheduler does
    at, arg,        \* the tensor and the argument the loops have reached
    n_children, n_views, allocated, addr,   \* the hash table
    chunks,         \* the allocator of each buffer (buf_tallocs)
    planned, plan,  \* the graph of the last walk and its node_allocs, leaf_allocs
    bufs,           \* the sizes of the chunks each buffer has got, or NoBuffer
    data,           \* tensor->data of the graph's tensors
    graphs, failures

walkVars == <<at, arg, n_children, n_views, allocated, addr, chunks>>
keptVars == <<n_buffers, planned, plan, bufs>>
vars == <<graph, pc, caller, walkVars, keptVars, data, graphs, failures>>

NoGraph == [leafs |-> 0, tensors |-> <<>>]
NoBuffer == <<-1>>
Nowhere == [buffer |-> 0, chunk |-> 0, offset |-> 0]
NoPlan == [addr |-> Nowhere, size_max |-> -1]

-----------------------------------------------------------------------------
(* Graphs.                                                                 *)

Tensors(g) == DOMAIN g.tensors
Nodes(g) == g.leafs + 1 .. Len(g.tensors)
T(t) == graph.tensors[t]
IsView(g, t) == g.tensors[t].view # 0
Root(g, t) == IF IsView(g, t) THEN g.tensors[t].view ELSE t
\* It gets memory from the allocator.
Owns(g, t) == ~g.tensors[t].external /\ ~IsView(g, t)

\* Some node has t as an argument.
IsRead(g, t) == \E n \in Nodes(g) : \E j \in DOMAIN g.tensors[n].src : g.tensors[n].src[j] = t

TensorType ==
    [op : {"none", "inplace", "other"}, src : Seq(Nat), view : Nat,
     input : BOOLEAN, output : BOOLEAN, external : BOOLEAN,
     layout : Nat, size : Nat \ {0}, buffer : 1 .. Buffers]

\* What the walk and its callers take for granted of a graph.  The sizes of an
\* operation and of the argument it may overwrite are the assertion of
\* ggml_gallocr_free_extra_space; views that nobody made by an operation are
\* not arguments; inputs are set by the caller and not computed; half of the
\* address space holds all the tensors together.  A leaf need not be an argument
\* of any node: whisper_build_graph_conv makes two such with an external encoder.
WellFormed(g) ==
    /\ g.leafs \in Nat /\ g.tensors \in Seq(TensorType) /\ g.leafs <= Len(g.tensors)
    /\ \A t \in Tensors(g) :
         LET x == g.tensors[t]
         IN  /\ \A j \in DOMAIN x.src : x.src[j] \in 1 .. t - 1
             /\ x.view < t
             /\ x.view # 0 => ~IsView(g, x.view) /\ ~x.external /\ ~x.input
             /\ t <= g.leafs => x.op = "none" /\ x.src = <<>>
             /\ x.input => x.op = "none"
             /\ Len(g.tensors) * aligned(x.size) <= Endless
             /\ x.op = "inplace" => \A j \in DOMAIN x.src :
                   g.tensors[x.src[j]].layout = x.layout => x.size <= g.tensors[x.src[j]].size
             /\ x.op = "none" /\ x.view # 0 /\ Owns(g, x.view) => ~IsRead(g, t)

\* The same operations on the same arguments: other sizes, memory of their own,
\* or another buffer.
SameShape(g, h) ==
    /\ g.leafs = h.leafs /\ Tensors(g) = Tensors(h)
    /\ \A t \in Tensors(g) :
         LET Shape(x) == <<x.op, x.src, x.view, x.input, x.output, x.layout>>
         IN  Shape(g.tensors[t]) = Shape(h.tensors[t])

ASSUME GallocAssumption ==
    Buffers \in Nat \ {0} /\ MaxGraphs \in Nat /\ MaxFailures \in Nat

Init ==
    /\ n_buffers \in 1 .. Buffers
    /\ graph = NoGraph /\ pc = "ready" /\ caller = "alloc"
    /\ at = 0 /\ arg = 0
    /\ n_children = <<>> /\ n_views = <<>> /\ allocated = <<>> /\ addr = <<>>
    /\ chunks = [b \in 1 .. Buffers |-> <<>>]
    /\ planned = NoGraph /\ plan = <<>> /\ bufs = [b \in 1 .. Buffers |-> NoBuffer]
    /\ data = <<>>
    /\ graphs = 0 /\ failures = 0

-----------------------------------------------------------------------------
(* ggml_gallocr_needs_realloc                                              *)

\* What the last walk put down for argument j of node k.
SrcPlan(k, j) ==
    IF j \in DOMAIN planned.tensors[k].src THEN plan[planned.tensors[k].src[j]] ELSE NoPlan

\* ggml_gallocr_node_needs_realloc, which is TRUE when there is no need.
StillFits(g, t, talloc) ==
    Owns(g, t) => talloc # NoPlan /\ talloc.size_max >= g.tensors[t].size

NeedsRealloc(g) ==
    \/ g.leafs # planned.leafs \/ Len(g.tensors) # Len(planned.tensors)
    \/ \E k \in Nodes(g) :
         \/ ~StillFits(g, k, plan[k])
         \/ \E j \in DOMAIN g.tensors[k].src : ~StillFits(g, g.tensors[k].src[j], SrcPlan(k, j))

\* Some tensor goes to another buffer than in the last graph.
BackendsChanged(g) ==
    /\ Tensors(g) = Tensors(graph)
    /\ \E t \in Tensors(g) : g.tensors[t].buffer # graph.tensors[t].buffer

-----------------------------------------------------------------------------
(* The memory of one tensor.                                               *)

Own(t) == allocated[t]
IsAllocated(t) == T(t).external \/ Own(t)

\* The assertion of ggml_dyn_tallocr_insert_block: the bytes from address a can
\* be returned.
HasRoom(a, size) == HasRoomToFree(chunks[a.buffer], a.chunk, a.offset, size)
Release(a, size) ==
    /\ HasRoom(a, size)
    /\ chunks' = [chunks EXCEPT ![a.buffer] = FreeBytes(@, a.chunk, a.offset, size)]

\* Argument s of t may be overwritten by t, its only reader.  Views are never
\* allocated, so that the branch for a view of a dead tensor is never reached.
Reusable(t, s) ==
    /\ Own(s) /\ ~T(s).output /\ T(s).layout = T(t).layout
    /\ n_children[s] = 1 /\ n_views[s] = 0

\* t is written over its argument j, the first that may be.
Reuses(t, j) ==
    /\ T(t).op = "inplace" /\ Reusable(t, T(t).src[j])
    /\ \A i \in 1 .. j - 1 : ~Reusable(t, T(t).src[i])

\* ggml_gallocr_free_extra_space: what t leaves of its argument s.
Extra(t, s) == aligned(T(s).size) - aligned(T(t).size)
ExtraAt(t, s) == [addr[s] EXCEPT !.offset = @ + aligned(T(t).size)]

Reuse(t) ==
    \E j \in DOMAIN T(t).src :
       LET s == T(t).src[j]
       IN  /\ Reuses(t, j)
           /\ addr' = [addr EXCEPT ![t] = addr[s]]
           /\ allocated' = [allocated EXCEPT ![t] = TRUE, ![s] = FALSE]
           /\ IF Extra(t, s) > 0 THEN Release(ExtraAt(t, s), Extra(t, s)) ELSE UNCHANGED chunks

\* Memory of its own for t.
Allocate(t) ==
    LET b    == T(t).buffer
        size == aligned(T(t).size)
        full == Full(chunks[b], size)
        cs   == IF full THEN NewChunk(chunks[b], size) ELSE chunks[b]
    IN  /\ \A j \in DOMAIN T(t).src : ~Reuses(t, j)
        /\ full => Len(chunks[b]) < MaxChunks
        /\ \E p \in InnerBlocks(cs) \cup LastBlocks(cs) :
             /\ IF full THEN p = <<Len(cs), 1>> ELSE Chosen(cs, size, p)
             /\ addr' = [addr EXCEPT ![t] =
                           [buffer |-> b, chunk |-> p[1], offset |-> BlockAt(cs, p).offset]]
             /\ chunks' = [chunks EXCEPT ![b] = Cut(cs, p, size)]
        /\ allocated' = [allocated EXCEPT ![t] = TRUE]

\* ggml_gallocr_allocate_node
AllocateNode(t) ==
    IF IsAllocated(t) \/ IsView(graph, t) THEN UNCHANGED <<addr, allocated, chunks>>
    ELSE Reuse(t) \/ Allocate(t)

\* ggml_gallocr_free_node
FreeNode(t) ==
    IF T(t).output THEN UNCHANGED <<allocated, chunks>>
    ELSE /\ Release(addr[t], aligned(T(t).size))
         /\ allocated' = [allocated EXCEPT ![t] = FALSE]

-----------------------------------------------------------------------------
(* The walk: ggml_gallocr_reserve_n_impl, ggml_gallocr_alloc_graph_impl.   *)

\* The allocators and the hash table are emptied.
StartWalk(g, who) ==
    /\ caller' = who /\ pc' = "leafs" /\ at' = 1 /\ arg' = 1
    /\ chunks' = [b \in 1 .. Buffers |-> <<>>]
    /\ n_children' = [t \in Tensors(g) |-> 0] /\ n_views' = [t \in Tensors(g) |-> 0]
    /\ allocated' = [t \in Tensors(g) |-> FALSE] /\ addr' = [t \in Tensors(g) |-> Nowhere]

AllocateLeaf ==
    /\ pc = "leafs" /\ at <= graph.leafs
    /\ AllocateNode(at)
    /\ at' = at + 1
    /\ UNCHANGED <<graph, pc, caller, arg, n_children, n_views, keptVars, data, graphs, failures>>

\* The last of a loop: the next one starts with the first node.
EndLoop(from, to) ==
    /\ pc = from /\ pc' = to /\ at' = graph.leafs + 1 /\ arg' = 1
    /\ UNCHANGED <<graph, caller, n_children, n_views, allocated, addr, chunks, keptVars,
                   data, graphs, failures>>

EndLeafs == at > graph.leafs /\ EndLoop("leafs", "count")
EndCount == at > Len(graph.tensors) /\ EndLoop("count", "parents")

\* Mutant: a node that takes a tensor twice counts as one reader.
ReadOnce(n, t) == IF \E j \in DOMAIN T(n).src : T(n).src[j] = t THEN 1 ELSE 0

\* How often t is an argument of n.
TimesRead(n, t) == Cardinality({j \in DOMAIN T(n).src : T(n).src[j] = t})

\* The readers and the views are counted; inputs get memory before any is freed.
\* Inputs among the arguments have theirs already.
CountNode ==
    /\ pc = "count" /\ at <= Len(graph.tensors)
    /\ n_views' = [t \in Tensors(graph) |->
                     IF IsView(graph, at) /\ T(at).op # "none" /\ t = T(at).view
                     THEN n_views[t] + 1 ELSE n_views[t]]
    /\ n_children' = [t \in Tensors(graph) |->
                        n_children[t] + TimesRead(at, t)]
    /\ IF T(at).input THEN AllocateNode(at) ELSE UNCHANGED <<addr, allocated, chunks>>
    /\ at' = at + 1
    /\ UNCHANGED <<graph, pc, caller, arg, keptVars, data, graphs, failures>>

\* First the arguments of a node get memory, should they have none, ...
AllocateParent ==
    /\ pc = "parents" /\ at <= Len(graph.tensors) /\ arg <= Len(T(at).src)
    /\ AllocateNode(T(at).src[arg])
    /\ arg' = arg + 1
    /\ UNCHANGED <<graph, pc, caller, at, n_children, n_views, keptVars, data, graphs, failures>>

\* ... then the node, ...
AllocateResult ==
    /\ pc = "parents" /\ at <= Len(graph.tensors) /\ arg > Len(T(at).src)
    /\ AllocateNode(at)
    /\ pc' = "free" /\ arg' = 1
    /\ UNCHANGED <<graph, caller, at, n_children, n_views, keptVars, data, graphs, failures>>

\* Mutant: the views of a tensor do not keep its memory.
DiesUnviewed(s) ==
    LET r == Root(graph, s)
    IN  /\ n_children[s] = 1 /\ allocated[r]
        /\ r # s => n_children[r] = 0

\* With this reader the memory behind argument s has had its last one.
Dies(s) ==
    LET r == Root(graph, s)
    IN  /\ n_children[s] = 1 /\ n_views[s] = 0 /\ allocated[r]
        /\ r # s => n_views[r] = 1 /\ n_children[r] = 0

\* ... and then the arguments lose a reader.
FreeParent ==
    LET s == T(at).src[arg]
        r == Root(graph, s)
    IN  /\ pc = "free" /\ arg <= Len(T(at).src)
        /\ n_children' = [n_children EXCEPT ![s] = @ - 1]
        /\ n_views' = IF r # s /\ n_children[s] = 1 /\ n_views[s] = 0
                      THEN [n_views EXCEPT ![r] = @ - 1] ELSE n_views
        /\ IF Dies(s) THEN FreeNode(r) ELSE UNCHANGED <<allocated, chunks>>
        /\ arg' = arg + 1
        /\ UNCHANGED <<graph, pc, caller, at, addr, keptVars, data, graphs, failures>>

NextNode ==
    /\ pc = "free" /\ arg > Len(T(at).src)
    /\ pc' = "parents" /\ at' = at + 1 /\ arg' = 1
    /\ UNCHANGED <<graph, caller, n_children, n_views, allocated, addr, chunks, keptVars,
                   data, graphs, failures>>

\* GGML_ASSERT "out of free blocks"
Abort ==
    /\ \/ /\ pc = "parents" /\ at <= Len(graph.tensors) /\ arg > Len(T(at).src)
          /\ ~IsAllocated(at) /\ ~IsView(graph, at)
          /\ \E j \in DOMAIN T(at).src :
                LET s == T(at).src[j]
                IN  Reuses(at, j) /\ Extra(at, s) > 0 /\ ~HasRoom(ExtraAt(at, s), Extra(at, s))
       \/ /\ pc = "free" /\ arg <= Len(T(at).src)
          /\ LET r == Root(graph, T(at).src[arg])
             IN  /\ Dies(T(at).src[arg]) /\ ~T(r).output
                 /\ ~HasRoom(addr[r], aligned(T(r).size))
    /\ pc' = "aborted"
    /\ UNCHANGED <<graph, caller, walkVars, keptVars, data, graphs, failures>>

\* node_allocs and leaf_allocs are set from the hash table.
SavePlan ==
    /\ pc = "parents" /\ at > Len(graph.tensors)
    /\ planned' = graph
    /\ plan' = [t \in Tensors(graph) |->
                  IF Owns(graph, t) THEN [addr |-> addr[t], size_max |-> T(t).size] ELSE NoPlan]
    /\ pc' = "buffers" /\ at' = 1
    /\ UNCHANGED <<graph, caller, arg, n_children, n_views, allocated, addr, chunks, bufs,
                   n_buffers, data, graphs, failures>>

\* Mutant: the sizes are compared as a whole.
OutgrownInTotal(b) ==
    \/ bufs[b] = NoBuffer
    \/ MapThenSumSet(LAMBDA c : chunks[b][c].max_size, DOMAIN chunks[b])
          > MapThenSumSet(LAMBDA c : bufs[b][c], DOMAIN bufs[b])

\* A chunk of the buffer has become larger, or there is no buffer.
Outgrown(b) ==
    \/ bufs[b] = NoBuffer
    \/ \E c \in DOMAIN chunks[b] :
          chunks[b][c].max_size > (IF c \in DOMAIN bufs[b] THEN bufs[b][c] ELSE 0)

ReserveBuffer ==
    /\ pc = "buffers" /\ at <= Buffers
    /\ bufs' = IF Outgrown(at)
               THEN [bufs EXCEPT ![at] = [c \in DOMAIN chunks[at] |-> chunks[at][c].max_size]]
               ELSE bufs
    /\ at' = at + 1
    /\ UNCHANGED <<graph, pc, caller, arg, n_children, n_views, allocated, addr, chunks,
                   n_buffers, planned, plan, data, graphs, failures>>

\* The backend has no memory.  What the walk found is kept.  The scheduler takes
\* ggml_gallocr_alloc_graph returning false for a need to reserve, and its own
\* reserve for done.
ReserveFails ==
    /\ pc = "buffers" /\ at <= Buffers /\ Outgrown(at) /\ chunks[at] # <<>>
    /\ failures < MaxFailures /\ failures' = failures + 1
    /\ bufs' = [bufs EXCEPT ![at] = NoBuffer]
    /\ IF caller = "alloc" THEN StartWalk(graph, "sched")
       ELSE pc' = "place" /\ UNCHANGED <<caller, walkVars>>
    /\ UNCHANGED <<graph, n_buffers, planned, plan, data, graphs>>

EndReserve ==
    /\ pc = "buffers" /\ at > Buffers
    /\ pc' = "place"
    /\ UNCHANGED <<graph, caller, walkVars, keptVars, data, graphs, failures>>

-----------------------------------------------------------------------------
(* The caller.                                                             *)

\* The graphs that may come next, their tensors in buffers of the backends there are.
Asked ==
    {g \in (IF graphs = 0 THEN Graphs(n_buffers) ELSE Again(graph)) :
       WellFormed(g) /\ \A t \in Tensors(g) : g.tensors[t].buffer <= n_buffers}

\* ggml_backend_sched_alloc_splits with the next graph.
NextGraph ==
    /\ pc = "ready" /\ graphs < MaxGraphs
    /\ \E g \in Asked :
         /\ graph' = g
         /\ IF BackendsChanged(g) \/ (n_buffers > 1 /\ NeedsRealloc(g)) THEN StartWalk(g, "sched")
            ELSE IF NeedsRealloc(g) THEN StartWalk(g, "alloc")
            ELSE pc' = "place" /\ UNCHANGED <<caller, walkVars>>
    /\ data' = <<>>
    /\ graphs' = graphs + 1
    /\ UNCHANGED <<keptVars, failures>>

\* Tensor t can be put where the plan says.  A crash stands for each way this ends
\* without: there is no plan and no buffer of number -1, the buffer is NULL, or the
\* assertion of ggml_backend_tensor_alloc.
Fits(t) ==
    LET a == plan[t].addr
    IN  /\ a.buffer \in 1 .. Buffers /\ bufs[a.buffer] # NoBuffer
        /\ a.chunk \in DOMAIN bufs[a.buffer]
        /\ a.offset + T(t).size <= bufs[a.buffer][a.chunk]

\* The end of ggml_gallocr_alloc_graph: the tensors get their addresses.
Place ==
    /\ pc = "place"
    /\ IF \A t \in Tensors(graph) : Owns(graph, t) => Fits(t)
       THEN /\ pc' = "ready"
            /\ data' = [t \in Tensors(graph) |-> IF Owns(graph, t) THEN plan[t].addr ELSE Nowhere]
       ELSE pc' = "crashed" /\ UNCHANGED data
    /\ UNCHANGED <<graph, caller, walkVars, keptVars, graphs, failures>>

\* No more graphs, or no process.
Ended ==
    /\ pc \in {"crashed", "aborted"} \/ (pc = "ready" /\ graphs = MaxGraphs)
    /\ UNCHANGED vars

Next ==
    \/ NextGraph \/ AllocateLeaf \/ EndLeafs \/ CountNode \/ EndCount
    \/ AllocateParent \/ AllocateResult \/ FreeParent \/ NextNode \/ Abort
    \/ SavePlan \/ ReserveBuffer \/ ReserveFails \/ EndReserve \/ Place \/ Ended

Spec == Init /\ [][Next]_vars

-----------------------------------------------------------------------------
(* Properties.                                                             *)

AddrType == [buffer : 0 .. Buffers, chunk : 0 .. MaxChunks, offset : Nat]

\* The state is well typed.
TypeOK ==
    /\ n_buffers \in 1 .. Buffers
    /\ graph = NoGraph \/ WellFormed(graph)
    /\ pc \in {"ready", "leafs", "count", "parents", "free", "buffers", "place",
               "aborted", "crashed"}
    /\ caller \in {"alloc", "sched"}
    /\ at \in Nat /\ arg \in Nat
    /\ DOMAIN n_children = DOMAIN addr /\ DOMAIN n_views = DOMAIN addr
    /\ DOMAIN allocated = DOMAIN addr
    /\ \A t \in DOMAIN addr :
          /\ n_children[t] \in Nat /\ n_views[t] \in Int
          /\ allocated[t] \in BOOLEAN /\ addr[t] \in AddrType
    /\ \A b \in 1 .. Buffers :
          /\ chunks[b] \in Seq(Chunk) /\ Len(chunks[b]) <= MaxChunks
          /\ \A c \in DOMAIN chunks[b] : Len(chunks[b][c].free) <= MaxFreeBlocks
          /\ bufs[b] \in Seq(Int)
    /\ DOMAIN plan = Tensors(planned)
    /\ graphs \in 0 .. MaxGraphs /\ failures \in 0 .. MaxFailures

Walking == pc \in {"leafs", "count", "parents", "free"}

\* Tensor t lies at address a over the given byte.
Covers(t, a, b, c, byte) ==
    /\ a.buffer = b /\ a.chunk = c
    /\ a.offset <= byte /\ byte < a.offset + aligned(T(t).size)

\* Every byte the allocator ever handed out is at any moment in exactly one
\* place: in one live tensor or in one free block.  None is handed out twice,
\* none is lost, and free blocks that touch are merged (free_bytes,
\* free_extra_space and the removal of empty blocks keep this together).
BytesAreCounted ==
    Walking => \A b \in 1 .. Buffers : \A c \in DOMAIN chunks[b] :
       LET free == chunks[b][c].free
       IN  /\ \A byte \in 0 .. chunks[b][c].max_size - 1 :
                 Cardinality({t \in DOMAIN addr : allocated[t] /\ Covers(t, addr[t], b, c, byte)})
               + Cardinality({i \in DOMAIN free : free[i].offset <= byte /\ byte < End(free[i])}) = 1
           /\ \A i \in 1 .. Len(free) - 1 : End(free[i]) < free[i + 1].offset

\* "since the last chunk always has virtually endless memory, this should never
\* happen" (ggml_dyn_tallocr_alloc): no allocation finds all chunks in use and none to add.
LastChunkSuffices ==
    /\ pc \in {"leafs", "count", "parents"} /\ at \in Tensors(graph)
    /\ Owns(graph, at) /\ ~Own(at)
    => LET b == T(at).buffer
       IN  Full(chunks[b], aligned(T(at).size)) => Len(chunks[b]) < MaxChunks

\* With the tensors of graph g at addresses A, the bytes of two are not apart.
Overlap(g, A, t, u) ==
    /\ A[t].buffer = A[u].buffer /\ A[t].chunk = A[u].chunk
    /\ A[t].offset < A[u].offset + g.tensors[u].size
    /\ A[u].offset < A[t].offset + g.tensors[t].size

\* t has its value before the graph is computed.
Given(g, t) == t <= g.leafs \/ g.tensors[t].input
\* Where node n reads t, as it is or through a view.
Reads(g, n, t) == {j \in DOMAIN g.tensors[n].src : Root(g, g.tensors[n].src[j]) = t}
\* The value of t must be there when node k writes.
NeededAt(g, t, k) ==
    /\ Given(g, t) \/ t < k
    /\ g.tensors[t].output \/ \E n \in Nodes(g) : n >= k /\ Reads(g, n, t) # {}
\* k writes over the argument t element by element, and nobody reads t afterwards.
InPlace(g, A, k, t) ==
    /\ g.tensors[k].op = "inplace" /\ g.tensors[k].layout = g.tensors[t].layout /\ A[k] = A[t]
    /\ Cardinality(Reads(g, k, t)) = 1 /\ \A j \in Reads(g, k, t) : g.tensors[k].src[j] = t
    /\ ~g.tensors[t].output /\ \A n \in Nodes(g) : n > k => Reads(g, n, t) = {}

\* Among the tensors of S no node writes over a value that is still to be read,
\* by a later node, through a view or, for outputs, by the caller; and what the
\* caller sets before the graph runs is not set twice in one place.
ValuesKept(g, A, S) ==
    \A t \in S :
       /\ \A k \in S \cap Nodes(g) :
             k # t /\ ~g.tensors[k].input /\ NeededAt(g, t, k) =>
                ~Overlap(g, A, t, k) \/ InPlace(g, A, k, t)
       /\ \A u \in S \ {t} : Given(g, t) /\ Given(g, u) => ~Overlap(g, A, t, u)

Owned(g) == {t \in Tensors(g) : Owns(g, t)}

\* ggml_gallocr_needs_realloc does not look at the leafs that no node reads.  That
\* none of them has outgrown its place is taken for granted of the graph.
UnreadFit == \A t \in 1 .. graph.leafs : ~IsRead(graph, t) => StillFits(graph, t, plan[t])

\* Whether the addresses of a graph were found for it or for an earlier graph of
\* the same operations, computing it loses no value, if its unread leafs fit.
ValuesSurvive ==
    pc = "ready" /\ SameShape(planned, graph) /\ UnreadFit => ValuesKept(graph, data, Owned(graph))

\* A graph is given addresses it has no memory at only because a backend has
\* refused the buffer of one of its tensors: sizes that were planned for an earlier
\* graph of the same operations never fall short, if the unread leafs fit, and
\* those planned for the graph itself neither.
CrashNeedsRefusal ==
    pc = "crashed" /\ SameShape(planned, graph) /\ UnreadFit =>
       /\ failures > 0
       /\ \E b \in 1 .. Buffers : bufs[b] = NoBuffer /\ \E t \in Owned(graph) : plan[t].addr.buffer = b

=============================================================================
