---------------------------- MODULE MCThreadpool ----------------------------
(* Threadpool for TLC: one small graph, computed twice.                    *)
EXTENDS Threadpool

\* More chunks than two threads take, a NOP, and a node that needs the product.
MCGraphs ==
    {<<[kind |-> "mul_mat", chunks |-> 3],
       [kind |-> "skip", chunks |-> 1],
       [kind |-> "rows", chunks |-> 1]>>}

=============================================================================
