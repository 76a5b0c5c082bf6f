------------------------------ MODULE MCGalloc ------------------------------
(* Galloc for TLC: graphs of two leafs and three nodes, small (1) and large (3), *)
(* built of the operations below, and some longer ones.                          *)
EXTENDS Galloc

Tensor(op, src, view, size) ==
    [op |-> op, src |-> src, view |-> view, input |-> FALSE, output |-> FALSE,
     external |-> FALSE, layout |-> size, size |-> size, buffer |-> 1]

MCLeafs ==
    {<<[Tensor("none", <<>>, 0, 1) EXCEPT !.input = TRUE],
       [Tensor("none", <<>>, 0, 3) EXCEPT !.external = e]>> : e \in BOOLEAN}

\* What may be computed from the tensors that are there: views, results over an
\* argument (as large or small, of one or two arguments), results of their own.
Results(ts) ==
    LET D == DOMAIN ts
        last == Len(ts)
        Rt(s) == IF ts[s].view # 0 THEN ts[s].view ELSE s
        Over(src) == [Tensor("inplace", src, 0, ts[src[1]].size) EXCEPT !.layout = ts[src[1]].layout]
    IN  {Tensor("other", <<s>>, Rt(s), ts[s].size) : s \in D}
        \cup {Over(<<s>>) : s \in D} \cup {[Over(<<s>>) EXCEPT !.size = 1] : s \in D}
        \cup {Over(<<last, s>>) : s \in D}
        \cup {Tensor("other", <<s>>, 0, 1) : s \in D}
        \cup {Tensor("other", <<s, last>>, 0, 3) : s \in D}

\* The last node reads the one before it and another tensor.
Finals(ts) ==
    LET last == Len(ts)
    IN  {Tensor("other", <<s, last>>, 0, 3) : s \in DOMAIN ts}
        \cup {[Tensor("inplace", <<last, s>>, 0, ts[last].size) EXCEPT !.layout = ts[last].layout]
               : s \in DOMAIN ts}

Grown(S) == UNION {{Append(ts, x) : x \in Results(ts)} : ts \in S}
Flagged(S) == S \cup {[ts EXCEPT ![3].output = (ts[3].op = "other" /\ ts[3].view = 0)] : ts \in S}

Small(src) == Tensor("other", src, 0, 1)

\* Results that die with others alive between them.
Scattered ==
    [leafs |-> 1,
     tensors |-> <<[Tensor("none", <<>>, 0, 1) EXCEPT !.input = TRUE]>>
        \o [n \in 1 .. 6 |-> Small(<<1>>)] \o <<Small(<<4>>), Small(<<6>>), Small(<<5, 7>>)>>]

\* A large result overwritten by a small one, with others around it.
Shrunk ==
    [leafs |-> 1,
     tensors |-> <<[Tensor("none", <<>>, 0, 1) EXCEPT !.input = TRUE],
                   Small(<<1>>), Small(<<1>>), Small(<<1>>), Tensor("other", <<1>>, 0, 3),
                   Small(<<1>>), Small(<<4>>), [Tensor("inplace", <<5>>, 0, 1) EXCEPT !.layout = 3],
                   Small(<<6, 8>>)>>]

\* A split of the scheduler: a view that keeps the source of a copy, the copy.
Split(flags) ==
    [leafs |-> 1,
     tensors |-> <<[Tensor("none", <<>>, 0, 3) EXCEPT !.input = TRUE],
                   Tensor("none", <<1>>, 1, 3),
                   [Tensor("none", <<>>, 0, 3) EXCEPT !.input = flags, !.output = flags],
                   Tensor("other", <<3>>, 0, 3), Tensor("inplace", <<4>>, 0, 3),
                   Tensor("other", <<5, 3>>, 0, 1)>>]

Input(size) == [Tensor("none", <<>>, 0, size) EXCEPT !.input = TRUE]

\* The graph of whisper_build_graph_conv with an external encoder: two leafs, no node.
External == [leafs |-> 2, tensors |-> <<Input(2), [Input(2) EXCEPT !.output = TRUE]>>]

\* A leaf that no node reads, beside one that is read.
Unread == [leafs |-> 2, tensors |-> <<Input(1), Input(2), Small(<<2>>), Small(<<2, 3>>)>>]

\* Tensors S of graph g go to the second buffer.
Moved(g, S) ==
    [g EXCEPT !.tensors = [t \in Tensors(g) |-> [g.tensors[t] EXCEPT !.buffer = IF t \in S THEN 2 ELSE 1]]]

\* One backend: these and all the small ones.  Two: part of the graph on either.
MCGraphs(n) ==
    IF n = 1
    THEN {Scattered, Shrunk, Split(FALSE), Split(TRUE), External, Unread} \cup
         {[leafs |-> 2, tensors |-> ts] :
            ts \in UNION {{Append(ts, x) : x \in Finals(ts)} : ts \in Grown(Flagged(Grown(MCLeafs)))}}
    ELSE {Moved(g, {t \in Tensors(g) : t >= from}) :
            g \in {Shrunk, Split(FALSE), Split(TRUE), External, Unread}, from \in 2 .. 5}

\* The graph again, with one tensor of another size, the layouts as they were, or
\* with the tensors from one on in another buffer.
MCAgain(g) ==
    {[g EXCEPT !.tensors[t].size = size] : t \in Tensors(g), size \in {1, 2, 4}}
    \cup {Moved(g, {t \in Tensors(g) : t >= from}) : from \in {1, 2, 4}}

=============================================================================
