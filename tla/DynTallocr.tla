----------------------------- MODULE DynTallocr -----------------------------
(***************************************************************************)
(* The memory of one buffer of the graph allocator: ggml_dyn_tallocr of    *)
(* src/whisper.cpp/ggml/src/ggml-alloc.c.  It hands out offsets, no bytes: *)
(* a buffer is a list of chunks, a chunk the list of its free blocks,      *)
(* sorted by address, and the highest address it ever handed out.          *)
(*                                                                         *)
(* Blocks and chunks are counted from 1.  Sizes are given as the caller    *)
(* gives them and rounded up here.                                         *)
(***************************************************************************)
EXTENDS Integers, Sequences, SequencesExt, FiniteSetsExt

CONSTANTS
    Alignment,      \* of the buffer type
    MaxChunkSize,   \* the size a new chunk has, unless a tensor is larger
    MaxChunks,      \* GGML_VBUFFER_MAX_CHUNKS
    MaxFreeBlocks,  \* MAX_FREE_BLOCKS, of one chunk
    Endless         \* SIZE_MAX/2, the size of the last chunk

ASSUME TallocrAssumption ==
    /\ Alignment \in Nat \ {0} /\ MaxChunkSize \in Nat \ {0}
    /\ MaxChunks \in Nat \ {0} /\ MaxFreeBlocks \in Nat \ {0} /\ Endless \in Nat

Block == [offset : Nat, size : Nat]
Chunk == [free : Seq(Block), max_size : Nat]

aligned(size) == size + ((Alignment - (size % Alignment)) % Alignment)

End(block) == block.offset + block.size

-----------------------------------------------------------------------------
(* ggml_dyn_tallocr_alloc                                                  *)

\* <<c, i>> names free block i of chunk c.
BlockAt(chunks, p) == chunks[p[1]].free[p[2]]
LastBlocks(chunks) ==
    {<<c, Len(chunks[c].free)>> : c \in {c \in DOMAIN chunks : chunks[c].free # <<>>}}
InnerBlocks(chunks) ==
    UNION {{<<c, i>> : i \in 1 .. Len(chunks[c].free) - 1} : c \in DOMAIN chunks}
Fitting(chunks, blocks, size) == {p \in blocks : BlockAt(chunks, p).size >= size}

\* The first search: best_fit_size starts afresh in each chunk, so a later
\* chunk that has a block wins over an earlier one with a better block.
BetterInner(chunks, p, q) ==
    \/ p[1] > q[1]
    \/ /\ p[1] = q[1]
       /\ \/ BlockAt(chunks, p).size < BlockAt(chunks, q).size
          \/ BlockAt(chunks, p).size = BlockAt(chunks, q).size /\ p[2] > q[2]

\* The second search, over the last blocks: reuse_factor is what would be left
\* of the memory the chunk has been given, or, below 0, what it must grow by.
reuse_factor(chunks, p, size) ==
    chunks[p[1]].max_size - BlockAt(chunks, p).offset - size
BetterLast(chunks, p, q, size) ==
    LET rp == reuse_factor(chunks, p, size)
        rq == reuse_factor(chunks, q, size)
    IN  \/ rq < 0 /\ rp > rq
        \/ rp >= 0 /\ rp < rq
        \/ rp = rq /\ p[1] < q[1]

\* p is the block an allocation of size bytes is cut from.
Chosen(chunks, size, p) ==
    LET inner == Fitting(chunks, InnerBlocks(chunks), size)
        last  == Fitting(chunks, LastBlocks(chunks), size)
    IN  \/ p \in inner /\ \A q \in inner \ {p} : BetterInner(chunks, p, q)
        \/ inner = {} /\ p \in last /\ \A q \in last \ {p} : BetterLast(chunks, p, q, size)

\* No block fits: a chunk is added, and its only block is taken.
Full(chunks, size) ==
    Fitting(chunks, InnerBlocks(chunks) \cup LastBlocks(chunks), size) = {}

\* Mutant: the last chunk is no larger than the others.
NewChunkOfBounds(chunks, size) ==
    Append(chunks, [free |-> <<[offset |-> 0, size |-> Max({size, MaxChunkSize})]>>,
                    max_size |-> 0])

\* ggml_dyn_tallocr_new_chunk
NewChunk(chunks, size) ==
    Append(chunks, [free |-> <<[offset |-> 0,
                                size |-> IF Len(chunks) = MaxChunks - 1 THEN Endless
                                         ELSE Max({size, MaxChunkSize})]>>,
                    max_size |-> 0])

\* size bytes are cut from the start of block p; a block that is used up is removed.
Cut(chunks, p, size) ==
    LET block == BlockAt(chunks, p)
        free  == chunks[p[1]].free
    IN  [chunks EXCEPT ![p[1]] =
           [free     |-> IF block.size = size THEN RemoveAt(free, p[2])
                         ELSE [free EXCEPT ![p[2]] = [offset |-> block.offset + size,
                                                      size   |-> block.size - size]],
            max_size |-> Max({@.max_size, block.offset + size})]]

-----------------------------------------------------------------------------
(* ggml_dyn_tallocr_free_bytes                                             *)

\* Mutant: blocks are not merged with the block that follows them.
Unjoined(free, i) == free

\* Block i takes in the next one if it now reaches it.
Joined(free, i) ==
    IF i < Len(free) /\ End(free[i]) = free[i + 1].offset
    THEN RemoveAt([free EXCEPT ![i].size = @ + free[i + 1].size], i + 1)
    ELSE free

\* Where the bytes go in the list when they touch no block of it.
InsertPos(free, offset) ==
    Min({k \in 1 .. Len(free) + 1 : k = Len(free) + 1 \/ free[k].offset >= offset})

\* The blocks that end where the bytes begin, or begin where they end.
Touching(free, offset, size) ==
    {i \in DOMAIN free : End(free[i]) = offset \/ offset + size = free[i].offset}

\* The list of free blocks with the bytes returned to it.
Freed(free, offset, size) ==
    LET touching == Touching(free, offset, size)
        i     == Min(touching)
        block == [offset |-> offset, size |-> size]
    IN  IF touching = {} THEN InsertAt(free, InsertPos(free, offset), block)
        ELSE IF End(free[i]) = offset
        THEN Joined([free EXCEPT ![i].size = @ + size], i)
        ELSE LET grown == [free EXCEPT ![i] = [offset |-> offset, size |-> @.size + size]]
             IN  IF i > 1 THEN Joined(grown, i - 1) ELSE grown

FreeBytes(chunks, chunk, offset, size) ==
    [chunks EXCEPT ![chunk].free = Freed(@, offset, size)]

\* The assertion of ggml_dyn_tallocr_insert_block.
HasRoomToFree(chunks, chunk, offset, size) ==
    \/ Touching(chunks[chunk].free, offset, size) # {}
    \/ Len(chunks[chunk].free) < MaxFreeBlocks

=============================================================================
